---- MODULE Spec2Model ----
(***************************************************************************)
(* Diet-formulation engine of src/calculators.ts (calculateDiet and its    *)
(* helpers) as a state machine.                                            *)
(*                                                                         *)
(* Numbers.  The engine computes with JavaScript numbers.  They are        *)
(* modelled as exact rationals <<n, d>> in lowest terms with d > 0, so a   *)
(* division is a division and not the identity; rounding of IEEE doubles   *)
(* is not modelled.  <<0, 0>> stands for the values JavaScript treats as   *)
(* "not a usable number" (undefined, NaN).                                 *)
(***************************************************************************)
EXTENDS Integers, Sequences, FiniteSets, TLC

(***************************************************************************)
(* Rational arithmetic                                                     *)
(***************************************************************************)
Abs(i) == IF i < 0 THEN -i ELSE i

RECURSIVE Gcd(_, _)
Gcd(a, b) == IF b = 0 THEN a ELSE Gcd(b, a % b)

Q(n, d) ==
  LET s == IF d < 0 THEN -1 ELSE 1
      g == Gcd(Abs(n), Abs(d))
  IN  IF d = 0 THEN <<0, 0>> ELSE <<(s * n) \div g, (s * d) \div g>>

Int2Q(i) == <<i, 1>>
Zero == <<0, 1>>
NaN == <<0, 0>>
IsNum(x) == x[2] # 0

\* Arithmetic propagates NaN, as JavaScript arithmetic does.
RAdd(x, y) == IF IsNum(x) /\ IsNum(y) THEN Q(x[1] * y[2] + y[1] * x[2], x[2] * y[2]) ELSE NaN
RNeg(x) == IF IsNum(x) THEN <<-x[1], x[2]>> ELSE NaN
RSub(x, y) == RAdd(x, RNeg(y))
RMul(x, y) == IF IsNum(x) /\ IsNum(y) THEN Q(x[1] * y[1], x[2] * y[2]) ELSE NaN
RDiv(x, y) == IF IsNum(x) /\ IsNum(y) /\ y[1] # 0 THEN Q(x[1] * y[2], x[2] * y[1]) ELSE NaN

\* Comparisons with NaN are false, as in JavaScript.
RLt(x, y) == IsNum(x) /\ IsNum(y) /\ x[1] * y[2] < y[1] * x[2]
RGt(x, y) == RLt(y, x)
RLe(x, y) == IsNum(x) /\ IsNum(y) /\ x[1] * y[2] <= y[1] * x[2]
RGe(x, y) == RLe(y, x)

RMax(x, y) == IF ~IsNum(x) \/ ~IsNum(y) THEN NaN ELSE IF RLt(x, y) THEN y ELSE x
RMin(x, y) == IF ~IsNum(x) \/ ~IsNum(y) THEN NaN ELSE IF RLt(y, x) THEN y ELSE x
RFloor(x) == IF IsNum(x) THEN <<x[1] \div x[2], 1>> ELSE NaN

\* `x || dflt` of JavaScript: 0, NaN and undefined are falsy.
OrElse(x, dflt) == IF IsNum(x) /\ x[1] # 0 THEN x ELSE dflt

(***************************************************************************)
(* Strings used as keys.  A nutrient key is a sequence of tokens: a name   *)
(* ("Protein", "X"), the character "+" or a blank " ".  "X+Y" is           *)
(* <<"X", "+", "Y">>.                                                      *)
(***************************************************************************)
K(name) == <<name>>
Includes(key, ch) == \E i \in 1..Len(key) : key[i] = ch

\* key.split('+'): the pieces between the "+" tokens (possibly empty).
RECURSIVE SplitFrom(_, _, _)
SplitFrom(key, i, cur) ==
  IF i > Len(key) THEN <<cur>>
  ELSE IF key[i] = "+" THEN <<cur>> \o SplitFrom(key, i + 1, <<>>)
  ELSE SplitFrom(key, i + 1, Append(cur, key[i]))
Split(key) == SplitFrom(key, 1, <<>>)

\* part.trim(): blanks removed at both ends.
RECURSIVE TrimLeft(_)
TrimLeft(s) == IF s # <<>> /\ Head(s) = " " THEN TrimLeft(Tail(s)) ELSE s
RECURSIVE TrimRight(_)
TrimRight(s) == IF s # <<>> /\ s[Len(s)] = " " THEN TrimRight(SubSeq(s, 1, Len(s) - 1)) ELSE s
Trim(s) == TrimRight(TrimLeft(s))

TrimmedParts(key) == [i \in 1..Len(Split(key)) |-> Trim(Split(key)[i])]
\* .filter(Boolean): the empty string is falsy.
NonEmptyParts(key) == SelectSeq(TrimmedParts(key), LAMBDA p : p # <<>>)

\* values[key] of a Record<string, number | undefined>: NaN stands for undefined.
Lookup(values, key) == IF key \in DOMAIN values THEN values[key] ELSE NaN

EPSILON == <<1, 1000000>>
\* x > EPSILON, computed within 32-bit integers (a numerator of 2148 or more
\* over a 32-bit denominator is above 1e-6).
GtEps(x) ==
  /\ IsNum(x)
  /\ x[1] > 0
  /\ (x[1] >= 2148 \/ x[1] * EPSILON[2] > x[2])

NON_AMINO_NUTRIENTS ==
  {K("Energy"), K("Protein"), K("Fluid"), K("Fat"), K("Carbohydrate"),
   K("LinoleicAcid"), K("LinolenicAcid")}

PerKgUnits == {"mg/kg", "g/kg", "kcal/kg", "mL/kg"}

toDailyUnit(unit) ==
  IF unit \in {"mg/kg", "mg/day"} THEN "mg/day"
  ELSE IF unit \in {"g/kg", "g/day"} THEN "g/day"
  ELSE IF unit \in {"kcal/kg", "kcal/day"} THEN "kcal/day"
  ELSE IF unit \in {"mL/kg", "mL/day"} THEN "mL/day"
  ELSE "%energy"

\* toDailyValue that multiplies whatever the unit.
toDailyValuePerKg(value, unit, weightKg) == RMul(value, weightKg)

toDailyValue(value, unit, weightKg) ==
  IF unit \in PerKgUnits THEN RMul(value, weightKg) ELSE value

\* pickTarget that follows the mode for a minOnly range too.
pickTargetByMode(range, mode) ==
  IF mode = "MIN" THEN range.min
  ELSE IF mode = "MAX" THEN range.max
  ELSE IF IsNum(range.mid) THEN range.mid
  ELSE RDiv(RAdd(range.min, range.max), Int2Q(2))

\* pickTarget that aims at the minimum in mode MID.
pickTargetLow(range, mode) ==
  IF range.minOnly THEN range.min
  ELSE IF mode = "MAX" THEN range.max
  ELSE range.min

pickTarget(range, mode) ==
  IF range.minOnly THEN range.min
  ELSE IF mode = "MIN" THEN range.min
  ELSE IF mode = "MAX" THEN range.max
  ELSE IF IsNum(range.mid) THEN range.mid
  ELSE RDiv(RAdd(range.min, range.max), Int2Q(2))

\* SumParts that skips a part without a value (a partial sum).
RECURSIVE SumPartsPresent(_, _, _)
SumPartsPresent(parts, values, total) ==
  IF parts = <<>> THEN total
  ELSE IF ~IsNum(Lookup(values, Head(parts))) THEN SumPartsPresent(Tail(parts), values, total)
  ELSE SumPartsPresent(Tail(parts), values, RAdd(total, Lookup(values, Head(parts))))

\* Lines 57-66: the for loop over the parts.
RECURSIVE SumParts(_, _, _)
SumParts(parts, values, total) ==
  IF parts = <<>> THEN total
  ELSE IF ~IsNum(Lookup(values, Head(parts))) THEN NaN
  ELSE SumParts(Tail(parts), values, RAdd(total, Lookup(values, Head(parts))))

resolveCompositeValue(key, values) ==
  IF IsNum(Lookup(values, key)) THEN Lookup(values, key)
  ELSE IF ~Includes(key, "+") THEN NaN
  ELSE SumParts(NonEmptyParts(key), values, Zero)

\* unitMap[key] || ... : a missing unit is the empty string here.
LookupUnit(unitMap, key) == IF key \in DOMAIN unitMap THEN unitMap[key] ELSE ""

resolveUnitForComposite(key, unitMap) ==
  IF LookupUnit(unitMap, key) # "" THEN LookupUnit(unitMap, key)
  ELSE IF ~Includes(key, "+") THEN "day"
  ELSE IF NonEmptyParts(key) = <<>> THEN "day"
  ELSE IF LookupUnit(unitMap, NonEmptyParts(key)[1]) # "" THEN LookupUnit(unitMap, NonEmptyParts(key)[1])
  ELSE "day"

formulaNutrient(formula, nutrient) == resolveCompositeValue(nutrient, formula.values)

\* isAminoAcidNutrient without the test of line 89.
isAminoAcidNutrientUnlisted(nutrient) ==
  IF ~Includes(nutrient, "+") THEN TRUE
  ELSE \A i \in 1..Len(TrimmedParts(nutrient)) :
         /\ Len(TrimmedParts(nutrient)[i]) > 0
         /\ TrimmedParts(nutrient)[i] \notin NON_AMINO_NUTRIENTS

\* Lines 88-97.
isAminoAcidNutrient(nutrient) ==
  IF nutrient \in NON_AMINO_NUTRIENTS THEN FALSE
  ELSE IF ~Includes(nutrient, "+") THEN TRUE
  ELSE \A i \in 1..Len(TrimmedParts(nutrient)) :
         /\ Len(TrimmedParts(nutrient)[i]) > 0
         /\ TrimmedParts(nutrient)[i] \notin NON_AMINO_NUTRIENTS

(***************************************************************************)
(* Plan items and the completion helpers                                   *)
(***************************************************************************)
\* `formulas.special || null`: the absent formula.
NoFormula == [name |-> "", basis |-> "", values |-> <<>>]

\* formulaByRole[item.role]
FormulaOf(formulaByRole, role) == formulaByRole[role]

RECURSIVE SumSeq(_)
SumSeq(xs) == IF xs = <<>> THEN Zero ELSE RAdd(Head(xs), SumSeq(Tail(xs)))

\* ItemNutrient that counts the parts of a composite key the formula has.
ItemNutrientPartial(item, formulaByRole, nutrient) ==
  IF FormulaOf(formulaByRole, item.role) = NoFormula THEN Zero
  ELSE RDiv(RMul(SumPartsPresent(NonEmptyParts(nutrient), FormulaOf(formulaByRole, item.role).values, Zero),
                 item.amount), Int2Q(100))

\* One term of the reduce of lines 112-119 and 451-458.
ItemNutrient(item, formulaByRole, nutrient) ==
  IF FormulaOf(formulaByRole, item.role) = NoFormula THEN Zero
  ELSE IF ~IsNum(formulaNutrient(FormulaOf(formulaByRole, item.role), nutrient)) THEN Zero
  ELSE RDiv(RMul(formulaNutrient(FormulaOf(formulaByRole, item.role), nutrient), item.amount), Int2Q(100))

\* deliveredForCompletionNutrient that answers with the energy for every nutrient.
deliveredAsEnergy(nutrient, planItems, formulaByRole) ==
  SumSeq([i \in 1..Len(planItems) |-> planItems[i].kcal])

\* Lines 99-120.
deliveredForCompletionNutrient(nutrient, planItems, formulaByRole) ==
  IF nutrient = K("Energy") THEN SumSeq([i \in 1..Len(planItems) |-> planItems[i].kcal])
  ELSE IF nutrient = K("Protein") THEN SumSeq([i \in 1..Len(planItems) |-> planItems[i].protein])
  ELSE SumSeq([i \in 1..Len(planItems) |-> ItemNutrient(planItems[i], formulaByRole, nutrient)])

ZeroNote(formulaLabel, label) == [kind |-> "zero", who |-> formulaLabel, what |-> K(label)]

\* CompletionLoop with line 150 computed as deficit * per100 / 100.
RECURSIVE CompletionLoopTimes(_, _, _, _, _, _, _)
CompletionLoopTimes(k, formula, formulaLabel, completionTargets, planItems, formulaByRole, acc) ==
  IF k > Len(completionTargets) THEN acc
  ELSE
    LET t == completionTargets[k]
        delivered == deliveredForCompletionNutrient(t.nutrient, planItems, formulaByRole)
        deficit == RMax(Zero, RSub(t.target, delivered))
        nutrientPer100 == formulaNutrient(formula, t.nutrient)
        needed == RDiv(RMul(deficit, nutrientPer100), Int2Q(100))
        next ==
          IF ~IsNum(t.target) THEN acc
          ELSE IF ~GtEps(deficit) THEN acc
          ELSE IF IsNum(nutrientPer100) /\ GtEps(nutrientPer100)
            THEN [acc EXCEPT !.amount = IF RGt(needed, acc.amount) THEN needed ELSE acc.amount]
          ELSE [acc EXCEPT !.notes = Append(acc.notes, ZeroNote(formulaLabel, t.label))]
    IN  CompletionLoopTimes(k + 1, formula, formulaLabel, completionTargets, planItems, formulaByRole, next)

\* CompletionLoop without the push of line 154.
RECURSIVE CompletionLoopQuiet(_, _, _, _, _, _, _)
CompletionLoopQuiet(k, formula, formulaLabel, completionTargets, planItems, formulaByRole, acc) ==
  IF k > Len(completionTargets) THEN acc
  ELSE
    LET t == completionTargets[k]
        delivered == deliveredForCompletionNutrient(t.nutrient, planItems, formulaByRole)
        deficit == RMax(Zero, RSub(t.target, delivered))
        nutrientPer100 == formulaNutrient(formula, t.nutrient)
        needed == RDiv(RMul(deficit, Int2Q(100)), nutrientPer100)
        next ==
          IF ~IsNum(t.target) THEN acc
          ELSE IF ~GtEps(deficit) THEN acc
          ELSE IF IsNum(nutrientPer100) /\ GtEps(nutrientPer100)
            THEN [acc EXCEPT !.amount = IF RGt(needed, acc.amount) THEN needed ELSE acc.amount]
          ELSE acc
    IN  CompletionLoopQuiet(k + 1, formula, formulaLabel, completionTargets, planItems, formulaByRole, next)

\* CompletionLoop without the Math.max of line 151: the last needed amount wins.
RECURSIVE CompletionLoopLast(_, _, _, _, _, _, _)
CompletionLoopLast(k, formula, formulaLabel, completionTargets, planItems, formulaByRole, acc) ==
  IF k > Len(completionTargets) THEN acc
  ELSE
    LET t == completionTargets[k]
        delivered == deliveredForCompletionNutrient(t.nutrient, planItems, formulaByRole)
        deficit == RMax(Zero, RSub(t.target, delivered))
        nutrientPer100 == formulaNutrient(formula, t.nutrient)
        needed == RDiv(RMul(deficit, Int2Q(100)), nutrientPer100)
        next ==
          IF ~IsNum(t.target) THEN acc
          ELSE IF ~GtEps(deficit) THEN acc
          ELSE IF IsNum(nutrientPer100) /\ GtEps(nutrientPer100)
            THEN [acc EXCEPT !.amount = needed]
          ELSE [acc EXCEPT !.notes = Append(acc.notes, ZeroNote(formulaLabel, t.label))]
    IN  CompletionLoopLast(k + 1, formula, formulaLabel, completionTargets, planItems, formulaByRole, next)

\* The forEach of lines 141-156 from entry k on: acc is [amount, notes].
RECURSIVE CompletionLoop(_, _, _, _, _, _, _)
CompletionLoop(k, formula, formulaLabel, completionTargets, planItems, formulaByRole, acc) ==
  IF k > Len(completionTargets) THEN acc
  ELSE
    LET t == completionTargets[k]
        delivered == deliveredForCompletionNutrient(t.nutrient, planItems, formulaByRole)
        deficit == RMax(Zero, RSub(t.target, delivered))
        nutrientPer100 == formulaNutrient(formula, t.nutrient)
        needed == RDiv(RMul(deficit, Int2Q(100)), nutrientPer100)
        next ==
          IF ~IsNum(t.target) THEN acc
          ELSE IF ~GtEps(deficit) THEN acc
          ELSE IF IsNum(nutrientPer100) /\ GtEps(nutrientPer100)
            THEN [acc EXCEPT !.amount = IF RGt(needed, acc.amount) THEN needed ELSE acc.amount]
          ELSE [acc EXCEPT !.notes = Append(acc.notes, ZeroNote(formulaLabel, t.label))]
    IN  CompletionLoop(k + 1, formula, formulaLabel, completionTargets, planItems, formulaByRole, next)

\* Returns the required amount and planNotes as left by the pushes.
requiredAmountForFormulaCompletion(formula, formulaLabel, completionTargets, planItems, formulaByRole, planNotes) ==
  CompletionLoop(1, formula, formulaLabel, completionTargets, planItems, formulaByRole,
                 [amount |-> Zero, notes |-> planNotes])

\* hasRemainingCompletionDeficit that looks at the first target only.
hasRemainingFirstDeficit(completionTargets, planItems, formulaByRole) ==
  /\ IsNum(completionTargets[1].target)
  /\ GtEps(RSub(completionTargets[1].target,
                deliveredForCompletionNutrient(completionTargets[1].nutrient, planItems, formulaByRole)))

\* Lines 161-173.
hasRemainingCompletionDeficit(completionTargets, planItems, formulaByRole) ==
  \E k \in 1..Len(completionTargets) :
    /\ IsNum(completionTargets[k].target)
    /\ GtEps(RSub(completionTargets[k].target,
                  deliveredForCompletionNutrient(completionTargets[k].nutrient, planItems, formulaByRole)))

\* makeContribution that computes scoops and water whatever the basis.
makeContributionScooped(role, formula, amount, feedsPerDay, scoopSizeG, waterPerScoopMl, primaryLimiter) ==
  LET primaryLimiterPer100 ==
        IF Len(primaryLimiter) > 0 THEN formulaNutrient(formula, primaryLimiter) ELSE NaN
      scoops == RDiv(amount, scoopSizeG)
      waterMl == RMul(scoops, waterPerScoopMl)
  IN  [role |-> role,
       formulaName |-> formula.name,
       basis |-> formula.basis,
       amount |-> amount,
       amountUnit |-> IF formula.basis = "100g" THEN "g/day" ELSE "mL/day",
       kcal |-> RDiv(RMul(OrElse(Lookup(formula.values, K("Energy")), Zero), amount), Int2Q(100)),
       protein |-> RDiv(RMul(OrElse(Lookup(formula.values, K("Protein")), Zero), amount), Int2Q(100)),
       primaryLimiterDelivered |->
         IF IsNum(primaryLimiterPer100)
           THEN RDiv(RMul(primaryLimiterPer100, amount), Int2Q(100)) ELSE NaN,
       scoops |-> scoops,
       waterMl |-> waterMl,
       perFeedAmount |-> RDiv(amount, feedsPerDay),
       perFeedScoops |-> RDiv(scoops, feedsPerDay),
       perFeedWaterMl |-> RDiv(waterMl, feedsPerDay)]

\* Lines 175-233.
makeContribution(role, formula, amount, feedsPerDay, scoopSizeG, waterPerScoopMl, primaryLimiter) ==
  LET primaryLimiterPer100 ==
        IF Len(primaryLimiter) > 0 THEN formulaNutrient(formula, primaryLimiter) ELSE NaN
      powder == formula.basis = "100g" /\ RGt(scoopSizeG, Zero)
      scoops == RDiv(amount, scoopSizeG)
      waterMl == RMul(scoops, waterPerScoopMl)
  IN  [role |-> role,
       formulaName |-> formula.name,
       basis |-> formula.basis,
       amount |-> amount,
       amountUnit |-> IF formula.basis = "100g" THEN "g/day" ELSE "mL/day",
       kcal |-> RDiv(RMul(OrElse(Lookup(formula.values, K("Energy")), Zero), amount), Int2Q(100)),
       protein |-> RDiv(RMul(OrElse(Lookup(formula.values, K("Protein")), Zero), amount), Int2Q(100)),
       primaryLimiterDelivered |->
         IF IsNum(primaryLimiterPer100)
           THEN RDiv(RMul(primaryLimiterPer100, amount), Int2Q(100)) ELSE NaN,
       scoops |-> IF powder THEN scoops ELSE NaN,
       waterMl |-> IF powder THEN waterMl ELSE NaN,
       perFeedAmount |-> RDiv(amount, feedsPerDay),
       perFeedScoops |-> IF powder THEN RDiv(scoops, feedsPerDay) ELSE NaN,
       perFeedWaterMl |-> IF powder THEN RDiv(waterMl, feedsPerDay) ELSE NaN]

(***************************************************************************)
(* The module-level tables the engine imports (./constants) and the        *)
(* formulas a caller can pass.                                             *)
(***************************************************************************)
Range(min, max, unit) == [min |-> Int2Q(min), max |-> Int2Q(max), unit |-> unit, mid |-> NaN, minOnly |-> FALSE]
RangeMid(min, mid, max, unit) == [Range(min, max, unit) EXCEPT !.mid = Int2Q(mid)]
MinOnly(min, unit) == [Range(min, min, unit) EXCEPT !.minOnly = TRUE]
Entry(key, range) == [nutrient |-> key, source |-> range]

\* GUIDELINES: per disease the age brackets in order; `nutrients` keeps the
\* insertion order Object.entries walks.
GUIDELINES ==
  [d \in {"PKU", "TYR_II_III", "GALACTOSEMIA"} |->
    CASE d = "PKU" ->
           << [ageLabel |-> "0-3 months",
               nutrients |-> << Entry(K("Protein"), Range(2, 4, "g/kg")),
                                Entry(K("PHE"), Range(20, 60, "mg/kg")) >>],
              [ageLabel |-> "1-4 years",
               nutrients |-> << Entry(K("PHE"), Range(200, 400, "mg/day")),
                                Entry(K("TYR"), Range(100, 300, "mg/kg")),
                                Entry(K("Protein"), RangeMid(20, 24, 30, "g/day")),
                                Entry(K("Energy"), Range(90, 110, "kcal/kg")),
                                Entry(K("Fluid"), MinOnly(100, "mL/kg")) >>] >>
      [] d = "TYR_II_III" ->
           << [ageLabel |-> "0-12 months",
               nutrients |-> << Entry(<<"PHE", "+", "TYR">>, Range(60, 100, "mg/kg")),
                                Entry(K("LEU"), MinOnly(50, "mg/kg")),
                                Entry(K("Protein"), Range(2, 3, "g/kg")),
                                Entry(K("Energy"), Range(100, 120, "kcal/kg")),
                                Entry(K("Carbohydrate"), Range(40, 60, "g/day")) >>] >>
      [] d = "GALACTOSEMIA" ->
           << [ageLabel |-> "0-12 months",
               nutrients |-> << Entry(K("Protein"), Range(2, 3, "g/kg")),
                                Entry(K("Energy"), Range(100, 120, "kcal/kg")),
                                Entry(K("Fat"), Range(0, 30, "g/day")) >>],
              [ageLabel |-> "1-4 years",
               nutrients |-> << Entry(K("Energy"), Range(900, 1100, "kcal/day")),
                                Entry(K("Fat"), Range(3, 6, "g/kg")),
                                Entry(K("Fluid"), MinOnly(1000, "mL/day")),
                                Entry(K("LinoleicAcid"), Range(3, 5, "%energy")) >>] >> ]

\* DISEASE_METADATA: only primaryLimiter is read; <<>> is "no limiter".
DISEASE_METADATA ==
  [d \in {"PKU", "TYR_II_III", "GALACTOSEMIA"} |->
    [primaryLimiter |-> CASE d = "PKU" -> K("PHE")
                          [] d = "TYR_II_III" -> <<"PHE", "+", "TYR">>
                          [] d = "GALACTOSEMIA" -> <<>>]]

Formula(name, basis, values) == [name |-> name, basis |-> basis, values |-> values]
V(name, n) == K(name) :> Int2Q(n)

StandardFormulas ==
  { Formula("Standard A", "100g", V("Protein", 11) @@ V("PHE", 400)),
    Formula("Standard B", "100g",
            V("Energy", 500) @@ V("Protein", 10) @@ V("PHE", 500) @@ V("TYR", 300) @@ V("Fat", 25)),
    Formula("Ready-to-feed C", "100mL", V("Energy", 70) @@ V("Protein", 2) @@ V("PHE", 80)),
    Formula("Glucose polymer", "100g", V("Energy", 400) @@ V("Carbohydrate", 95)),
    Formula("Soy D", "100g", V("Energy", 500) @@ V("Protein", 12)),
    Formula("Standard E", "100g", V("Energy", 480) @@ V("Protein", 10) @@ V("PHE", 400) @@ V("TYR", 300) @@ V("LEU", 800)) }

SpecialFormulas ==
  { Formula("Special A", "100g", V("Protein", 13) @@ V("PHE", 0)),
    Formula("Special B", "100g",
            V("Energy", 450) @@ V("Protein", 15) @@ V("PHE", 100) @@ V("TYR", 200)) }

ModularFormulas ==
  { Formula("Modular A", "100g", V("Energy", 400) @@ V("Carbohydrate", 100) @@ V("Fat", 0)),
    Formula("Modular B", "100mL", V("Energy", 200) @@ V("Fat", 20) @@ V("PHE", 10)) }

(***************************************************************************)
(* calculateDiet, step by step                                             *)
(***************************************************************************)
VARIABLES
  pc,          \* where the current invocation stands
  inputs,      \* the caller's CalculationInputs object
  given,       \* what the caller passed, as it was at the call
  tables,      \* the imported GUIDELINES and DISEASE_METADATA
  safe,        \* safeWeight, safeFeeds, safeScoopSizeG, safeWaterPerScoopMl, safeAgeIndex
  rows,        \* the resolved rows of lines 245-258
  planNotes,   \* the notes array of line 284: [id, list]
  planItems,   \* the items array of line 285: [id, list]
  sizing,      \* standardAmount, limitingNutrientForStandard, specialAmount, modularAmount
  trail,       \* the stages run so far, in order
  out,         \* the value returned (or NoOutput)
  memo,        \* an earlier invocation an observer kept: [given, out] (or NoMemo)
  helper       \* a direct call of one of the helper functions: [fn, args, ret] (or NoHelper)

vars == <<pc, inputs, given, tables, safe, rows, planNotes, planItems, sizing, trail, out, memo, helper>>

NoInputs == [weightKg |-> NaN, disease |-> "", ageGroupIndex |-> NaN, targetMode |-> "",
             feedsPerDay |-> NaN, scoopSizeG |-> NaN, waterPerScoopMl |-> NaN,
             formulas |-> [standard |-> NoFormula, special |-> NoFormula, modular |-> NoFormula]]
NoSafe == [weight |-> NaN, feeds |-> NaN, scoop |-> NaN, water |-> NaN, ageIndex |-> NaN]
NoList == [id |-> 0, list |-> <<>>]
NoSizing == [standardAmount |-> Zero, limitingNutrientForStandard |-> <<>>,
             specialAmount |-> Zero, modularAmount |-> Zero]
NoOutput == [returned |-> FALSE]
NoMemo == [kept |-> FALSE]
NoHelper == [fn |-> "", pending |-> FALSE]

\* safeWaterPerScoopMl without the floor at 0.
safeWaterUnclamped(in) == OrElse(in.waterPerScoopMl, Zero)

\* Lines 236-239.
safeWeight(in) == RMax(Zero, OrElse(in.weightKg, Zero))
safeFeeds(in) == RMax(Int2Q(1), RFloor(OrElse(in.feedsPerDay, Int2Q(1))))
\* safeScoopSizeG without the floor at 0.1.
safeScoopDefaultOnly(in) == OrElse(in.scoopSizeG, Int2Q(5))

safeScoopSizeG(in) == RMax(Q(1, 10), OrElse(in.scoopSizeG, Int2Q(5)))

safeWaterPerScoopMl(in) == RMax(Zero, OrElse(in.waterPerScoopMl, Zero))

\* Lines 241-242.
diseaseGuides(in, tb) == tb.GUIDELINES[in.disease]
\* safeAgeIndex clamped at the upper end only.
safeAgeIndexUpperOnly(in, tb) ==
  RMin(in.ageGroupIndex, Int2Q(Len(diseaseGuides(in, tb)) - 1))

safeAgeIndex(in, tb) ==
  RMin(RMax(Zero, in.ageGroupIndex), Int2Q(Len(diseaseGuides(in, tb)) - 1))

\* diseaseGuides[safeAgeIndex] is an element only for an integer index in range;
\* otherwise it is undefined and line 245 throws a TypeError.
HasAgeGuide(in, tb, idx) ==
  IsNum(idx) /\ idx[2] = 1 /\ idx[1] >= 0 /\ idx[1] < Len(diseaseGuides(in, tb))
ageGuide(in, tb, idx) == diseaseGuides(in, tb)[idx[1] + 1]

\* ResolveRow whose target is left per kilogram.
ResolveRowUnscaled(entry, mode, weight) ==
  [nutrient |-> entry.nutrient,
   source |-> entry.source,
   totalMin |-> toDailyValue(entry.source.min, entry.source.unit, weight),
   totalMax |-> toDailyValue(entry.source.max, entry.source.unit, weight),
   totalTarget |-> pickTarget(entry.source, mode),
   totalUnit |-> toDailyUnit(entry.source.unit)]

\* Lines 245-258.
ResolveRow(entry, mode, weight) ==
  [nutrient |-> entry.nutrient,
   source |-> entry.source,
   totalMin |-> toDailyValue(entry.source.min, entry.source.unit, weight),
   totalMax |-> toDailyValue(entry.source.max, entry.source.unit, weight),
   totalTarget |-> toDailyValue(pickTarget(entry.source, mode), entry.source.unit, weight),
   totalUnit |-> toDailyUnit(entry.source.unit)]

ResolveRows(guide, mode, weight) ==
  [k \in 1..Len(guide.nutrients) |-> ResolveRow(guide.nutrients[k], mode, weight)]

\* Lines 260-266: the last row written for a key wins.
RowKeys(rs) == {rs[k].nutrient : k \in 1..Len(rs)}
LastRow(rs, key) == rs[CHOOSE k \in 1..Len(rs) :
                        rs[k].nutrient = key /\ \A j \in (k + 1)..Len(rs) : rs[j].nutrient # key]
targetByNutrient(rs) == [key \in RowKeys(rs) |-> LastRow(rs, key).totalTarget]
unitByNutrient(rs) == [key \in RowKeys(rs) |-> LastRow(rs, key).totalUnit]

\* Line 268.
primaryLimiterOf(in, tb) == tb.DISEASE_METADATA[in.disease].primaryLimiter

\* Lines 290-294.
formulaByRoleOf(in) ==
  [role \in {"standard", "special", "modular"} |-> in.formulas[role]]

\* Lines 296-305.
completionTargetsOf(rs) ==
  << [nutrient |-> K("Protein"), target |-> Lookup(targetByNutrient(rs), K("Protein")), label |-> "protein"],
     [nutrient |-> K("Energy"), target |-> Lookup(targetByNutrient(rs), K("Energy")), label |-> "calories"],
     [nutrient |-> K("Carbohydrate"), target |-> Lookup(targetByNutrient(rs), K("Carbohydrate")), label |-> "carbohydrate"],
     [nutrient |-> K("Fat"), target |-> Lookup(targetByNutrient(rs), K("Fat")), label |-> "fat"] >>

\* LimitLoop without the comparison of line 318: the last qualifying nutrient wins.
RECURSIVE LimitLoopLast(_, _, _, _)
LimitLoopLast(k, rs, standardFormula, acc) ==
  IF k > Len(rs) THEN acc
  ELSE
    LET row == rs[k]
        standardElementPer100 == formulaNutrient(standardFormula, row.nutrient)
        maxAmountForThisElement == RDiv(RMul(row.totalMax, Int2Q(100)), standardElementPer100)
        next ==
          IF ~isAminoAcidNutrient(row.nutrient) \/ row.source.minOnly THEN acc
          ELSE IF ~IsNum(standardElementPer100) \/ ~GtEps(standardElementPer100) THEN acc
          ELSE [found |-> TRUE, amount |-> maxAmountForThisElement, nutrient |-> row.nutrient]
    IN  LimitLoopLast(k + 1, rs, standardFormula, next)

\* LimitLoop that takes the ceiling from totalTarget.
RECURSIVE LimitLoopTarget(_, _, _, _)
LimitLoopTarget(k, rs, standardFormula, acc) ==
  IF k > Len(rs) THEN acc
  ELSE
    LET row == rs[k]
        standardElementPer100 == formulaNutrient(standardFormula, row.nutrient)
        maxAmountForThisElement == RDiv(RMul(row.totalTarget, Int2Q(100)), standardElementPer100)
        next ==
          IF ~isAminoAcidNutrient(row.nutrient) \/ row.source.minOnly THEN acc
          ELSE IF ~IsNum(standardElementPer100) \/ ~GtEps(standardElementPer100) THEN acc
          ELSE IF (~acc.found /\ IsNum(maxAmountForThisElement))
                  \/ (acc.found /\ RLt(maxAmountForThisElement, acc.amount))
            THEN [found |-> TRUE, amount |-> maxAmountForThisElement, nutrient |-> row.nutrient]
          ELSE acc
    IN  LimitLoopTarget(k + 1, rs, standardFormula, next)

\* LimitLoop with <= at line 318: of equal ceilings the last one wins.
RECURSIVE LimitLoopTies(_, _, _, _)
LimitLoopTies(k, rs, standardFormula, acc) ==
  IF k > Len(rs) THEN acc
  ELSE
    LET row == rs[k]
        standardElementPer100 == formulaNutrient(standardFormula, row.nutrient)
        maxAmountForThisElement == RDiv(RMul(row.totalMax, Int2Q(100)), standardElementPer100)
        next ==
          IF ~isAminoAcidNutrient(row.nutrient) \/ row.source.minOnly THEN acc
          ELSE IF ~IsNum(standardElementPer100) \/ ~GtEps(standardElementPer100) THEN acc
          ELSE IF (~acc.found /\ IsNum(maxAmountForThisElement))
                  \/ (acc.found /\ RLe(maxAmountForThisElement, acc.amount))
            THEN [found |-> TRUE, amount |-> maxAmountForThisElement, nutrient |-> row.nutrient]
          ELSE acc
    IN  LimitLoopTies(k + 1, rs, standardFormula, next)

\* Lines 307-322: the forEach over the rows from row k on.  acc.found is
\* "maxStandardFromElements is finite" (it starts at +Infinity).
RECURSIVE LimitLoop(_, _, _, _)
LimitLoop(k, rs, standardFormula, acc) ==
  IF k > Len(rs) THEN acc
  ELSE
    LET row == rs[k]
        standardElementPer100 == formulaNutrient(standardFormula, row.nutrient)
        maxAmountForThisElement == RDiv(RMul(row.totalMax, Int2Q(100)), standardElementPer100)
        next ==
          IF ~isAminoAcidNutrient(row.nutrient) \/ row.source.minOnly THEN acc
          ELSE IF ~IsNum(standardElementPer100) \/ ~GtEps(standardElementPer100) THEN acc
          ELSE IF (~acc.found /\ IsNum(maxAmountForThisElement))
                  \/ (acc.found /\ RLt(maxAmountForThisElement, acc.amount))
            THEN [found |-> TRUE, amount |-> maxAmountForThisElement, nutrient |-> row.nutrient]
          ELSE acc
    IN  LimitLoop(k + 1, rs, standardFormula, next)

StandardLimit(rs, standardFormula) ==
  LimitLoop(1, rs, standardFormula, [found |-> FALSE, amount |-> Zero, nutrient |-> <<>>])

Note(kind, what) == [kind |-> kind, who |-> "", what |-> what]

\* StandardSizing that sizes by the protein target even when a ceiling was found.
StandardSizingByProtein(rs, standardFormula) ==
  LET targetProtein == OrElse(Lookup(targetByNutrient(rs), K("Protein")), Zero)
      standardProteinPer100 == OrElse(Lookup(standardFormula.values, K("Protein")), Zero)
  IN  IF RGt(targetProtein, Zero) /\ RGt(standardProteinPer100, Zero)
        THEN [amount |-> RDiv(RMul(targetProtein, Int2Q(100)), standardProteinPer100),
              notes |-> <<Note("protein-fallback", <<>>)>>]
      ELSE [amount |-> Zero, notes |-> <<>>]

\* Lines 324-334: the amount and the notes pushed.
StandardSizing(rs, standardFormula) ==
  LET limit == StandardLimit(rs, standardFormula)
      targetProtein == OrElse(Lookup(targetByNutrient(rs), K("Protein")), Zero)
      standardProteinPer100 == OrElse(Lookup(standardFormula.values, K("Protein")), Zero)
  IN  IF limit.found
        THEN [amount |-> RMax(Zero, limit.amount), notes |-> <<>>]
      ELSE IF RGt(targetProtein, Zero) /\ RGt(standardProteinPer100, Zero)
        THEN [amount |-> RDiv(RMul(targetProtein, Int2Q(100)), standardProteinPer100),
              notes |-> <<Note("protein-fallback", <<>>)>>]
      ELSE IF RGt(targetProtein, Zero)
        THEN [amount |-> Zero, notes |-> <<Note("standard-zero-protein", <<>>)>>]
      ELSE [amount |-> Zero, notes |-> <<>>]

\* Lines 347-357.
LimitNotes(limitingNutrient, specialFormula) ==
  IF Len(limitingNutrient) = 0 THEN <<>>
  ELSE IF specialFormula # NoFormula THEN <<Note("limit-special-completes", limitingNutrient)>>
  ELSE <<Note("limit-no-special", limitingNutrient)>>

Contribution(role, amount) ==
  makeContribution(role, inputs.formulas[role], amount, safe.feeds, safe.scoop, safe.water,
                   primaryLimiterOf(inputs, tables))

\* Lines 421-441: the reduces.
Field(items, f) == [i \in 1..Len(items) |-> items[i][f]]
FieldOrZero(items, f) == [i \in 1..Len(items) |-> OrElse(items[i][f], Zero)]
AmountIn(items, unit) ==
  [i \in 1..Len(items) |-> IF items[i].amountUnit = unit THEN items[i].amount ELSE Zero]

\* Totals whose powderG adds up every item's amount.
TotalsAllPowder(items, feeds, limiter) ==
  LET readyToFeedMl == SumSeq(AmountIn(items, "mL/day"))
      waterMl == SumSeq(FieldOrZero(items, "waterMl"))
      scoops == SumSeq(FieldOrZero(items, "scoops"))
  IN  [kcal |-> SumSeq(Field(items, "kcal")),
       protein |-> SumSeq(Field(items, "protein")),
       primaryLimiter |->
         IF Len(limiter) > 0
           THEN SumSeq(SelectSeq(Field(items, "primaryLimiterDelivered"), IsNum)) ELSE NaN,
       powderG |-> SumSeq(Field(items, "amount")),
       scoops |-> scoops,
       waterMl |-> waterMl,
       readyToFeedMl |-> readyToFeedMl,
       finalVolumeMl |-> RAdd(readyToFeedMl, waterMl),
       scoopsPerFeed |-> RDiv(scoops, feeds),
       volumePerFeedMl |-> RDiv(RAdd(readyToFeedMl, waterMl), feeds)]

\* Lines 421-441 and 505-516.
Totals(items, feeds, limiter) ==
  LET readyToFeedMl == SumSeq(AmountIn(items, "mL/day"))
      waterMl == SumSeq(FieldOrZero(items, "waterMl"))
      scoops == SumSeq(FieldOrZero(items, "scoops"))
  IN  [kcal |-> SumSeq(Field(items, "kcal")),
       protein |-> SumSeq(Field(items, "protein")),
       primaryLimiter |->
         IF Len(limiter) > 0
           THEN SumSeq(SelectSeq(Field(items, "primaryLimiterDelivered"), IsNum)) ELSE NaN,
       powderG |-> SumSeq(AmountIn(items, "g/day")),
       scoops |-> scoops,
       waterMl |-> waterMl,
       readyToFeedMl |-> readyToFeedMl,
       finalVolumeMl |-> RAdd(readyToFeedMl, waterMl),
       scoopsPerFeed |-> RDiv(scoops, feeds),
       volumePerFeedMl |-> RDiv(RAdd(readyToFeedMl, waterMl), feeds)]

\* Lines 443-483.
Delivered(row, items, formulaByRole, totals) ==
  IF row.nutrient = K("Energy") THEN totals.kcal
  ELSE IF row.nutrient = K("Protein") THEN totals.protein
  ELSE IF row.nutrient = K("Fluid") THEN totals.finalVolumeMl
  ELSE SumSeq([i \in 1..Len(items) |-> ItemNutrient(items[i], formulaByRole, row.nutrient)])

\* Status without the minOnly branch of lines 464-465.
StatusByRange(row, delivered) ==
  IF GtEps(RSub(row.totalMin, delivered)) THEN "LOW"
  ELSE IF GtEps(RSub(delivered, row.totalMax)) THEN "HIGH"
  ELSE "NORMAL"

\* Lines 463-470.
Status(row, delivered) ==
  IF row.source.minOnly
    THEN (IF GtEps(RSub(row.totalMin, delivered)) THEN "LOW" ELSE "NORMAL")
  ELSE IF GtEps(RSub(row.totalMin, delivered)) THEN "LOW"
  ELSE IF GtEps(RSub(delivered, row.totalMax)) THEN "HIGH"
  ELSE "NORMAL"

Balance(row, items, formulaByRole, totals) ==
  LET delivered == Delivered(row, items, formulaByRole, totals)
  IN  [nutrient |-> row.nutrient,
       unit |-> row.totalUnit,
       min |-> row.totalMin,
       max |-> row.totalMax,
       target |-> row.totalTarget,
       delivered |-> delivered,
       deficitToTarget |-> RMax(Zero, RSub(row.totalTarget, delivered)),
       excessToTarget |-> RMax(Zero, RSub(delivered, row.totalTarget)),
       status |-> Status(row, delivered)]

\* Lines 485-524.
Result(in, tb, sf, rs, notes, items) ==
  LET limiter == primaryLimiterOf(in, tb)
      totals == Totals(items.list, sf.feeds, limiter)
      targets == targetByNutrient(rs)
      primaryLimitValue == IF Len(limiter) > 0 THEN resolveCompositeValue(limiter, targets) ELSE NaN
  IN  [returned |-> TRUE,
       rows |-> rs,
       highlights |->
         [targetEnergy |-> Lookup(targets, K("Energy")),
          targetProtein |-> Lookup(targets, K("Protein")),
          targetFluid |-> Lookup(targets, K("Fluid")),
          primaryLimit |->
            IF Len(limiter) > 0 /\ IsNum(primaryLimitValue)
              THEN [nutrient |-> limiter, value |-> primaryLimitValue,
                    unit |-> resolveUnitForComposite(limiter, unitByNutrient(rs))]
              ELSE [nutrient |-> <<>>, value |-> NaN, unit |-> ""]],
       formulaPlan |->
         [primaryLimiter |-> limiter,
          notes |-> notes,
          items |-> items,
          nutrientBalances |->
            [k \in 1..Len(rs) |-> Balance(rs[k], items.list, formulaByRoleOf(in), totals)],
          totals |-> totals,
          deficits |->
            [protein |-> RMax(Zero, RSub(OrElse(Lookup(targets, K("Protein")), Zero), totals.protein)),
             energy |-> RMax(Zero, RSub(OrElse(Lookup(targets, K("Energy")), Zero), totals.kcal))]]]

(***************************************************************************)
(* Arrays have an identity: a new array is one nothing live refers to.     *)
(***************************************************************************)
LiveIds(m) == IF m.kept THEN {m.out.formulaPlan.notes.id, m.out.formulaPlan.items.id} ELSE {}
\* One array allocated once and handed to every invocation.
SharedArray(live) == [id |-> 1, list |-> <<>>]

NewArray(live) ==
  [id |-> CHOOSE i \in 1..(Cardinality(live) + 1) : i \notin live, list |-> <<>>]

(***************************************************************************)
(* What callers pass                                                       *)
(***************************************************************************)
MaxWeightKg == 4
MaxAgeIndex == 2

Modes == {"MIN", "MID", "MAX"}
Diseases == DOMAIN GUIDELINES
Optional(formulas) == formulas \cup {NoFormula}

Inputs(weights, diseases, indexes, modes, feeds, scoopSizes, waters, standards, specials, modulars) ==
  { [weightKg |-> w, disease |-> d, ageGroupIndex |-> a, targetMode |-> m,
     feedsPerDay |-> f, scoopSizeG |-> sc, waterPerScoopMl |-> wa,
     formulas |-> [standard |-> st, special |-> sp, modular |-> mo]] :
      w \in weights, d \in diseases, a \in indexes, m \in modes, f \in feeds,
      sc \in scoopSizes, wa \in waters, st \in standards, sp \in specials, mo \in modulars }

\* Well-formed calls: every formula and guideline, a fixed preparation.
DietInputs ==
  Inputs({Int2Q(w) : w \in 0..MaxWeightKg}, Diseases, {Int2Q(a) : a \in 0..MaxAgeIndex}, Modes,
         {Int2Q(8)}, {Int2Q(5)}, {Int2Q(30)},
         StandardFormulas, Optional(SpecialFormulas), Optional(ModularFormulas))

\* Calls with missing (NaN), zero, negative and fractional numbers.
PrepInputs ==
  Inputs({NaN, Int2Q(-1), Zero, Int2Q(MaxWeightKg)}, {"PKU"},
         {NaN, Q(1, 2)} \cup {Int2Q(a) : a \in (-1)..MaxAgeIndex}, {"MID"},
         {NaN, Int2Q(-3), Zero, Q(5, 2), Int2Q(8)},
         {NaN, Int2Q(-1), Zero, Q(1, 20), Int2Q(5)},
         {NaN, Int2Q(-1), Zero, Int2Q(30)},
         {st \in StandardFormulas : st.name \in {"Standard A", "Ready-to-feed C"}},
         {NoFormula} \cup {sp \in SpecialFormulas : sp.name = "Special A"},
         {NoFormula} \cup {mo \in ModularFormulas : mo.name = "Modular A"})

\* Repeated calls an observer compares.
RepeatInputs ==
  Inputs({Int2Q(2), Int2Q(MaxWeightKg)}, {"PKU"}, {Zero, Int2Q(1)}, Modes,
         {Int2Q(8)}, {Int2Q(5)}, {Int2Q(30)},
         {st \in StandardFormulas : st.name \in {"Standard A", "Soy D"}},
         Optional(SpecialFormulas),
         {NoFormula} \cup {mo \in ModularFormulas : mo.name = "Modular A"})

(***************************************************************************)
(* Actions                                                                 *)
(***************************************************************************)
Init ==
  /\ pc = "idle"
  /\ inputs = NoInputs
  /\ given = NoInputs
  /\ tables = [GUIDELINES |-> GUIDELINES, DISEASE_METADATA |-> DISEASE_METADATA]
  /\ safe = NoSafe
  /\ rows = <<>>
  /\ planNotes = NoList
  /\ planItems = NoList
  /\ sizing = NoSizing
  /\ trail = <<>>
  /\ out = NoOutput
  /\ memo = NoMemo
  /\ helper = NoHelper

\* The caller invokes calculateDiet(inputs).
Call(S) ==
  /\ pc = "idle"
  /\ \E in \in S : inputs' = in /\ given' = in
  /\ pc' = "clamp"
  /\ UNCHANGED <<tables, safe, rows, planNotes, planItems, sizing, trail, out, memo, helper>>

\* Lines 236-243.
Clamp ==
  /\ pc = "clamp"
  /\ safe' = [weight |-> safeWeight(inputs), feeds |-> safeFeeds(inputs),
              scoop |-> safeScoopSizeG(inputs), water |-> safeWaterPerScoopMl(inputs),
              ageIndex |-> safeAgeIndex(inputs, tables)]
  /\ pc' = IF HasAgeGuide(inputs, tables, safe'.ageIndex) THEN "resolve" ELSE "threw"
  /\ UNCHANGED <<inputs, given, tables, rows, planNotes, planItems, sizing, trail, out, memo, helper>>

\* Resolve that writes the daily values back into the guideline ranges.
ResolveInPlace ==
  /\ pc = "resolve"
  /\ rows' = ResolveRows(ageGuide(inputs, tables, safe.ageIndex), inputs.targetMode, safe.weight)
  /\ tables' = [tables EXCEPT !.GUIDELINES[inputs.disease][safe.ageIndex[1] + 1].nutrients =
                  [k \in 1..Len(rows') |->
                     [@[k] EXCEPT !.source.min = rows'[k].totalMin, !.source.max = rows'[k].totalMax]]]
  /\ planNotes' = NewArray(LiveIds(memo))
  /\ planItems' = NewArray(LiveIds(memo) \cup {planNotes'.id})
  /\ pc' = "stage1"
  /\ UNCHANGED <<inputs, given, safe, sizing, trail, out, memo, helper>>

\* Lines 245-305.
Resolve ==
  /\ pc = "resolve"
  /\ rows' = ResolveRows(ageGuide(inputs, tables, safe.ageIndex), inputs.targetMode, safe.weight)
  /\ planNotes' = NewArray(LiveIds(memo))
  /\ planItems' = NewArray(LiveIds(memo) \cup {planNotes'.id})
  /\ pc' = "stage1"
  /\ UNCHANGED <<inputs, given, tables, safe, sizing, trail, out, memo, helper>>

\* Stage1 that looks ahead: without a special formula to complete the plan it
\* sizes the standard formula by the protein target.
Stage1LookAhead ==
  /\ pc = "stage1"
  /\ LET limit == StandardLimit(rows, inputs.formulas.standard)
         sized == IF inputs.formulas.special = NoFormula
                    THEN StandardSizingByProtein(rows, inputs.formulas.standard)
                    ELSE StandardSizing(rows, inputs.formulas.standard)
     IN  /\ sizing' = [sizing EXCEPT !.standardAmount = sized.amount,
                                     !.limitingNutrientForStandard = limit.nutrient]
         /\ planItems' = [planItems EXCEPT !.list = Append(@, Contribution("standard", sized.amount))]
         /\ planNotes' = [planNotes EXCEPT !.list =
                            @ \o sized.notes \o LimitNotes(limit.nutrient, inputs.formulas.special)]
  /\ trail' = Append(trail, "standard")
  /\ pc' = "stage2"
  /\ UNCHANGED <<inputs, given, tables, safe, rows, out, memo, helper>>

\* Lines 307-357.
Stage1 ==
  /\ pc = "stage1"
  /\ LET limit == StandardLimit(rows, inputs.formulas.standard)
         sized == StandardSizing(rows, inputs.formulas.standard)
     IN  /\ sizing' = [sizing EXCEPT !.standardAmount = sized.amount,
                                     !.limitingNutrientForStandard = limit.nutrient]
         /\ planItems' = [planItems EXCEPT !.list = Append(@, Contribution("standard", sized.amount))]
         /\ planNotes' = [planNotes EXCEPT !.list =
                            @ \o sized.notes \o LimitNotes(limit.nutrient, inputs.formulas.special)]
  /\ trail' = Append(trail, "standard")
  /\ pc' = "stage2"
  /\ UNCHANGED <<inputs, given, tables, safe, rows, out, memo, helper>>

\* Complete that notes a missing formula whether or not a deficit remains.
CompleteNoteAlways(role, formulaLabel, missingNote) ==
  LET formula == inputs.formulas[role]
      targets == completionTargetsOf(rows)
      byRole == formulaByRoleOf(inputs)
      req == requiredAmountForFormulaCompletion(formula, formulaLabel, targets,
                                                planItems.list, byRole, planNotes.list)
  IN  IF formula # NoFormula
        THEN [amount |-> req.amount,
              items |-> Append(planItems.list, Contribution(role, req.amount)),
              notes |-> req.notes]
      ELSE [amount |-> Zero, items |-> planItems.list,
            notes |-> Append(planNotes.list, Note(missingNote, <<>>))]

\* Complete that adds the item only when an amount above 0 was computed.
CompleteIfNeeded(role, formulaLabel, missingNote) ==
  LET formula == inputs.formulas[role]
      targets == completionTargetsOf(rows)
      byRole == formulaByRoleOf(inputs)
      req == requiredAmountForFormulaCompletion(formula, formulaLabel, targets,
                                                planItems.list, byRole, planNotes.list)
  IN  IF formula # NoFormula /\ RGt(req.amount, Zero)
        THEN [amount |-> req.amount,
              items |-> Append(planItems.list, Contribution(role, req.amount)),
              notes |-> req.notes]
      ELSE IF formula # NoFormula
        THEN [amount |-> Zero, items |-> planItems.list, notes |-> req.notes]
      ELSE IF hasRemainingCompletionDeficit(targets, planItems.list, byRole)
        THEN [amount |-> Zero, items |-> planItems.list,
              notes |-> Append(planNotes.list, Note(missingNote, <<>>))]
      ELSE [amount |-> Zero, items |-> planItems.list, notes |-> planNotes.list]

\* Lines 359-388 (role "special") and 390-419 (role "modular").
Complete(role, formulaLabel, missingNote) ==
  LET formula == inputs.formulas[role]
      targets == completionTargetsOf(rows)
      byRole == formulaByRoleOf(inputs)
      req == requiredAmountForFormulaCompletion(formula, formulaLabel, targets,
                                                planItems.list, byRole, planNotes.list)
  IN  IF formula # NoFormula
        THEN [amount |-> req.amount,
              items |-> Append(planItems.list, Contribution(role, req.amount)),
              notes |-> req.notes]
      ELSE IF hasRemainingCompletionDeficit(targets, planItems.list, byRole)
        THEN [amount |-> Zero, items |-> planItems.list,
              notes |-> Append(planNotes.list, Note(missingNote, <<>>))]
      ELSE [amount |-> Zero, items |-> planItems.list, notes |-> planNotes.list]

Stage2 ==
  /\ pc = "stage2"
  /\ LET done == Complete("special", "Special formula", "no-special-selected")
     IN  /\ sizing' = [sizing EXCEPT !.specialAmount = done.amount]
         /\ planItems' = [planItems EXCEPT !.list = done.items]
         /\ planNotes' = [planNotes EXCEPT !.list = done.notes]
  /\ trail' = Append(trail, "special")
  /\ pc' = "stage3"
  /\ UNCHANGED <<inputs, given, tables, safe, rows, out, memo, helper>>

\* Stage3 that measures the deficits against the standard item alone.
Stage3StandardOnly ==
  /\ pc = "stage3"
  /\ LET done == Complete("modular", "Modular formula", "no-modular-selected")
         req == requiredAmountForFormulaCompletion(inputs.formulas.modular, "Modular formula",
                  completionTargetsOf(rows), SubSeq(planItems.list, 1, 1),
                  formulaByRoleOf(inputs), planNotes.list)
         blind == IF inputs.formulas.modular = NoFormula THEN done
                  ELSE [amount |-> req.amount,
                        items |-> Append(planItems.list, Contribution("modular", req.amount)),
                        notes |-> req.notes]
     IN  /\ sizing' = [sizing EXCEPT !.modularAmount = blind.amount]
         /\ planItems' = [planItems EXCEPT !.list = blind.items]
         /\ planNotes' = [planNotes EXCEPT !.list = blind.notes]
  /\ trail' = Append(trail, "modular")
  /\ pc' = "report"
  /\ UNCHANGED <<inputs, given, tables, safe, rows, out, memo, helper>>

\* Lines 390-419.
Stage3 ==
  /\ pc = "stage3"
  /\ LET done == Complete("modular", "Modular formula", "no-modular-selected")
     IN  /\ sizing' = [sizing EXCEPT !.modularAmount = done.amount]
         /\ planItems' = [planItems EXCEPT !.list = done.items]
         /\ planNotes' = [planNotes EXCEPT !.list = done.notes]
  /\ trail' = Append(trail, "modular")
  /\ pc' = "report"
  /\ UNCHANGED <<inputs, given, tables, safe, rows, out, memo, helper>>

\* Lines 421-524.
Report ==
  /\ pc = "report"
  /\ out' = Result(inputs, tables, safe, rows, planNotes, planItems)
  /\ pc' = "done"
  /\ UNCHANGED <<inputs, given, tables, safe, rows, planNotes, planItems, sizing, trail, memo, helper>>

\* The locals of the invocation are gone once it has returned or thrown.
Unwind ==
  /\ pc' = "idle"
  /\ inputs' = NoInputs
  /\ given' = NoInputs
  /\ safe' = NoSafe
  /\ rows' = <<>>
  /\ planNotes' = NoList
  /\ planItems' = NoList
  /\ sizing' = NoSizing
  /\ trail' = <<>>
  /\ out' = NoOutput
  /\ UNCHANGED <<tables, helper>>

\* The caller uses the result (or catches the error) and drops it.
Return ==
  /\ pc \in {"done", "threw"}
  /\ Unwind
  /\ UNCHANGED memo

\* The caller keeps the result of one invocation to compare later ones with.
Keep ==
  /\ pc = "done"
  /\ ~memo.kept
  /\ memo' = [kept |-> TRUE, given |-> given, out |-> out]
  /\ Unwind

Engine == Clamp \/ Resolve \/ Stage1 \/ Stage2 \/ Stage3 \/ Report \/ Return

Next == Call(DietInputs) \/ Engine
Spec == Init /\ [][Next]_vars

NextPrep == Call(PrepInputs) \/ Engine
SpecPrep == Init /\ [][NextPrep]_vars

NextRepeat == Call(RepeatInputs) \/ Engine \/ Keep
SpecRepeat == Init /\ [][NextRepeat]_vars

(***************************************************************************)
(* The helper functions called on their own                                *)
(***************************************************************************)
engineVars == <<pc, inputs, given, tables, safe, rows, planNotes, planItems, sizing, trail, out, memo>>

\* Value tables: every partial map from the names to the values.
ValueTables(names, values) == UNION {[S -> values] : S \in SUBSET names}

\* Keys with and without "+", with blanks, repeated, unknown and empty parts.
ResolverKeys ==
  { K("A"), K("C"), <<"A", "+", "B">>, <<"A", " ", "+", " ", "B">>, <<"B", "+", "A", "+", "A">>,
    <<"A", "+", "C">>, <<"A", "+">>, <<" ", "+", "B">>, <<"+">> }
ResolverTables == ValueTables({K("A"), K("B"), <<"A", "+", "B">>}, {Zero, Int2Q(2), Int2Q(3)})
ResolverArgs == [key : ResolverKeys, values : ResolverTables]

\* A caller invokes helper fn with one of the argument records.
Invoke(fn, Args) ==
  /\ ~helper.pending
  /\ \E args \in Args : helper' = [fn |-> fn, pending |-> TRUE, args |-> args]
  /\ UNCHANGED engineVars

\* The helper runs to its return statement.
Returns(fn, ret) ==
  /\ helper.pending
  /\ helper.fn = fn
  /\ helper' = [fn |-> fn, pending |-> FALSE, args |-> helper.args, ret |-> ret]
  /\ UNCHANGED engineVars

\* Lines 47-67.
ResolveCompositeValueCall ==
  \/ Invoke("resolveCompositeValue", ResolverArgs)
  \/ Returns("resolveCompositeValue", resolveCompositeValue(helper.args.key, helper.args.values))

\* Ranges with and without an explicit mid (0 included) and minOnly flag.
TargetRanges ==
  { [min |-> Int2Q(lo), max |-> Int2Q(hi), unit |-> "mg/day", mid |-> mid, minOnly |-> only] :
      lo \in {0, 2, 5}, hi \in {5, 9}, mid \in {NaN, Zero, Int2Q(4), Int2Q(6)}, only \in BOOLEAN }
TargetArgs == [range : TargetRanges, mode : Modes]

\* Lines 39-45.
PickTargetCall ==
  \/ Invoke("pickTarget", TargetArgs)
  \/ Returns("pickTarget", pickTarget(helper.args.range, helper.args.mode))

NextHelpers == ResolveCompositeValueCall \/ PickTargetCall
SpecHelpers == Init /\ [][NextHelpers]_vars
(***************************************************************************)
(* Properties                                                              *)
(***************************************************************************)
AfterStage1 == pc \in {"stage2", "stage3", "report", "done"}
StandardItem == planItems.list[1]
ItemOf(role) == planItems.list[CHOOSE i \in 1..Len(planItems.list) : planItems.list[i].role = role]
HasItem(role) == \E i \in 1..Len(planItems.list) : planItems.list[i].role = role

\* A row that can size the standard formula (lines 312-315).
Sizes(row, standardFormula) ==
  /\ isAminoAcidNutrient(row.nutrient)
  /\ ~row.source.minOnly
  /\ GtEps(formulaNutrient(standardFormula, row.nutrient))

FromStandardAlone(row) ==
  RDiv(RMul(formulaNutrient(inputs.formulas.standard, row.nutrient), StandardItem.amount), Int2Q(100))

\* C1: whenever stage 1 found a finite limiting amount, every amino-acid-like,
\* not minOnly nutrient with standard content > EPSILON gets from the standard
\* item alone at most its totalMax + EPSILON.
C1_CeilingRespect ==
  (AfterStage1 /\ Len(sizing.limitingNutrientForStandard) > 0) =>
    \A k \in 1..Len(rows) :
      Sizes(rows[k], inputs.formulas.standard) =>
        ~GtEps(RSub(FromStandardAlone(rows[k]), rows[k].totalMax))

\* Two nutrients size the standard formula, one binds and the other stays below.
C1_Witness ==
  /\ pc = "stage2"
  /\ Len(sizing.limitingNutrientForStandard) > 0
  /\ RGt(StandardItem.amount, Zero)
  /\ \E j, k \in 1..Len(rows) :
       /\ Sizes(rows[j], inputs.formulas.standard)
       /\ Sizes(rows[k], inputs.formulas.standard)
       /\ FromStandardAlone(rows[j]) = rows[j].totalMax
       /\ RLt(FromStandardAlone(rows[k]), rows[k].totalMax)

AminoCeilingRow(row) == isAminoAcidNutrient(row.nutrient) /\ ~row.source.minOnly
BalanceOf(k) == out.formulaPlan.nutrientBalances[k]

\* C2 as stated: in every final result no amino-acid-like, not minOnly nutrient
\* is delivered above totalMax + EPSILON (none has status HIGH), whatever the
\* special and modular formulas contain.
C2_NeverHigh ==
  pc = "done" =>
    \A k \in 1..Len(rows) :
      AminoCeilingRow(rows[k]) =>
        /\ ~GtEps(RSub(BalanceOf(k).delivered, rows[k].totalMax))
        /\ BalanceOf(k).status # "HIGH"

\* The formula of a role supplies nothing of the nutrient: absent, or content 0.
SuppliesNone(role, nutrient) ==
  \/ inputs.formulas[role] = NoFormula
  \/ ~IsNum(formulaNutrient(inputs.formulas[role], nutrient))
  \/ formulaNutrient(inputs.formulas[role], nutrient) = Zero

\* C2 amended: a nutrient that sizes the standard formula and of which the
\* special and modular formulas supply nothing ends at most at totalMax + EPSILON,
\* never HIGH.
C2_NoExcessWithoutOtherSources ==
  pc = "done" =>
    \A k \in 1..Len(rows) :
      (/\ Sizes(rows[k], inputs.formulas.standard)
       /\ SuppliesNone("special", rows[k].nutrient)
       /\ SuppliesNone("modular", rows[k].nutrient)) =>
        /\ ~GtEps(RSub(BalanceOf(k).delivered, rows[k].totalMax))
        /\ BalanceOf(k).status # "HIGH"

\* A three-item plan whose limiting nutrient ends exactly at its ceiling.
C2_Witness ==
  /\ pc = "done"
  /\ Len(planItems.list) = 3
  /\ \A i \in 1..3 : RGt(planItems.list[i].amount, Zero)
  /\ \E k \in 1..Len(rows) :
       /\ Sizes(rows[k], inputs.formulas.standard)
       /\ SuppliesNone("special", rows[k].nutrient)
       /\ SuppliesNone("modular", rows[k].nutrient)
       /\ BalanceOf(k).delivered = rows[k].totalMax
       /\ BalanceOf(k).status = "NORMAL"

NonNegative(x) == IsNum(x) => RGe(x, Zero)
ItemFields == {"amount", "scoops", "waterMl", "perFeedAmount", "perFeedScoops", "perFeedWaterMl"}
TotalFields == {"powderG", "scoops", "waterMl", "readyToFeedMl", "finalVolumeMl"}

\* C3: every item's amount, scoops, water and per-feed values and the totals
\* powderG, scoops, waterMl, readyToFeedMl, finalVolumeMl are >= 0, also for
\* negative, zero or missing weight, feeds, scoop size and water per scoop.
C3_NonNegative ==
  pc = "done" =>
    /\ \A i \in 1..Len(out.formulaPlan.items.list) : \A f \in ItemFields :
         NonNegative(out.formulaPlan.items.list[i][f])
    /\ \A i \in 1..Len(out.formulaPlan.items.list) : IsNum(out.formulaPlan.items.list[i].amount)
    /\ \A f \in TotalFields : IsNum(out.formulaPlan.totals[f]) /\ RGe(out.formulaPlan.totals[f], Zero)

\* Negative feeds, scoop size and water per scoop with three powders dosed.
C3_Witness ==
  /\ pc = "done"
  /\ Len(out.formulaPlan.items.list) = 3
  /\ \A i \in 1..3 : RGt(out.formulaPlan.items.list[i].amount, Zero)
  /\ RLt(given.feedsPerDay, Zero)
  /\ RLt(given.scoopSizeG, Zero)
  /\ RLt(given.waterPerScoopMl, Zero)
  /\ RGt(out.formulaPlan.totals.powderG, Zero)
  /\ RGt(out.formulaPlan.totals.scoops, Zero)
\* Deep equality of two results: the arrays by content, not by identity.
SameResult(a, b) ==
  /\ a.rows = b.rows
  /\ a.highlights = b.highlights
  /\ a.formulaPlan.primaryLimiter = b.formulaPlan.primaryLimiter
  /\ a.formulaPlan.notes.list = b.formulaPlan.notes.list
  /\ a.formulaPlan.items.list = b.formulaPlan.items.list
  /\ a.formulaPlan.nutrientBalances = b.formulaPlan.nutrientBalances
  /\ a.formulaPlan.totals = b.formulaPlan.totals
  /\ a.formulaPlan.deficits = b.formulaPlan.deficits

\* C4: an invocation whose inputs deep-equal those of an earlier invocation
\* (whatever ran in between) returns a deep-equal result: same items, notes and
\* balance statuses in the same order.
C4_Deterministic ==
  (pc = "done" /\ memo.kept /\ memo.given = given) => SameResult(out, memo.out)

\* The same inputs a second time, with notes and two items in the result.
C4_Witness ==
  /\ pc = "done"
  /\ memo.kept
  /\ memo.given = given
  /\ Len(out.formulaPlan.notes.list) >= 1
  /\ Len(out.formulaPlan.items.list) = 2
  /\ RGt(out.formulaPlan.items.list[2].amount, Zero)

Started == pc \notin {"idle", "clamp", "resolve", "threw"}

\* C5: an invocation leaves the inputs object (formulas included) and the
\* guideline and metadata tables as they were, and its notes and items arrays
\* are new arrays, shared neither with each other nor with an earlier result.
C5_Pure ==
  /\ tables = [GUIDELINES |-> GUIDELINES, DISEASE_METADATA |-> DISEASE_METADATA]
  /\ (pc # "idle" => inputs = given)
  /\ (Started => planNotes.id # planItems.id)
  /\ (Started /\ memo.kept => {planNotes.id, planItems.id} \cap LiveIds(memo) = {})
  /\ (pc = "done" /\ memo.kept =>
        {out.formulaPlan.notes.id, out.formulaPlan.items.id} \cap LiveIds(memo) = {})

\* A later invocation with other inputs returns while an earlier result is kept.
C5_Witness ==
  /\ pc = "done"
  /\ memo.kept
  /\ memo.given # given
  /\ memo.given.formulas = given.formulas
  /\ Len(memo.out.formulaPlan.notes.list) > 0
  /\ Len(out.formulaPlan.notes.list) > 0

CompletionNutrients == {K("Protein"), K("Energy"), K("Carbohydrate"), K("Fat")}
\* Per-100 contents tried for one nutrient of the formula being sized.
Contents == {Zero, Q(1, 2000000), Int2Q(1), Int2Q(13), Int2Q(100)}
WithContent(formula, nutrient, v) == [formula EXCEPT !.values = (nutrient :> v) @@ formula.values]

SizingRole == IF pc = "stage2" THEN "special" ELSE "modular"
Sizing == pc \in {"stage2", "stage3"} /\ inputs.formulas[SizingRole] # NoFormula
\* The amount requiredAmountForFormulaCompletion returns for `formula` with the
\* targets and the items allocated so far.
Required(formula) ==
  requiredAmountForFormulaCompletion(formula, "formula", completionTargetsOf(rows), planItems.list,
                                     formulaByRoleOf(inputs), planNotes.list).amount

\* C6 as stated: with targets and allocated items fixed, raising the per-100
\* content of a completion nutrient from any v >= 0 (0 and values <= EPSILON
\* included) to a larger value never raises the required amount.
C6_MonotoneFromAny ==
  Sizing =>
    \A n \in CompletionNutrients : \A v, w \in Contents :
      RLt(v, w) =>
        RLe(Required(WithContent(inputs.formulas[SizingRole], n, w)),
            Required(WithContent(inputs.formulas[SizingRole], n, v)))

\* C6 amended: the same for every starting content v > EPSILON.
C6_MonotoneAboveEpsilon ==
  Sizing =>
    \A n \in CompletionNutrients : \A v, w \in Contents :
      (GtEps(v) /\ RLt(v, w)) =>
        RLe(Required(WithContent(inputs.formulas[SizingRole], n, w)),
            Required(WithContent(inputs.formulas[SizingRole], n, v)))

\* A deficit the formula fills: more content strictly lowers the required amount.
C6_Witness ==
  /\ Sizing
  /\ \E n \in CompletionNutrients : \E v, w \in Contents :
       /\ GtEps(v)
       /\ RLt(v, w)
       /\ RLt(Required(WithContent(inputs.formulas[SizingRole], n, w)),
              Required(WithContent(inputs.formulas[SizingRole], n, v)))
       /\ RGt(Required(WithContent(inputs.formulas[SizingRole], n, w)), Zero)

\* The fixture of the end-to-end scenario: Protein 2-4 g/kg (3 g/kg in mode MID),
\* X = PHE 20-60 mg/kg.
ScenarioInputs ==
  [weightKg |-> Int2Q(4), disease |-> "PKU", ageGroupIndex |-> Zero, targetMode |-> "MID",
   feedsPerDay |-> Int2Q(8), scoopSizeG |-> Int2Q(5), waterPerScoopMl |-> Int2Q(30),
   formulas |-> [standard |-> Formula("Standard A", "100g", V("Protein", 11) @@ V("PHE", 400)),
                 special |-> Formula("Special A", "100g", V("Protein", 13) @@ V("PHE", 0)),
                 modular |-> NoFormula]]

\* C7: the scenario returns standard 60 g, special 5.4*100/13 g, total protein
\* 12 g with protein deficit 0, and X delivered 240 mg with status NORMAL.
C7_Scenario ==
  (pc = "done" /\ given = ScenarioInputs) =>
    /\ Len(out.formulaPlan.items.list) = 2
    /\ out.formulaPlan.items.list[1].role = "standard"
    /\ out.formulaPlan.items.list[1].amount = Int2Q(60)
    /\ out.formulaPlan.items.list[2].role = "special"
    /\ out.formulaPlan.items.list[2].amount = Q(54 * 100, 10 * 13)
    /\ out.formulaPlan.totals.protein = Int2Q(12)
    /\ out.formulaPlan.deficits.protein = Zero
    /\ out.formulaPlan.nutrientBalances[2].nutrient = K("PHE")
    /\ out.formulaPlan.nutrientBalances[2].delivered = Int2Q(240)
    /\ out.formulaPlan.nutrientBalances[2].status = "NORMAL"

\* The scenario has run to its result.
C7_Witness ==
  /\ pc = "done"
  /\ given = ScenarioInputs
  /\ out.returned

\* C8 as stated: no invocation ends in an error, and every one that finishes
\* returns rows, a plan starting with the standard item, balances and notes.
C8_AlwaysCompletes ==
  /\ pc # "threw"
  /\ pc = "done" =>
       /\ out.returned
       /\ Len(out.rows) > 0
       /\ Len(out.formulaPlan.items.list) >= 1
       /\ out.formulaPlan.items.list[1].role = "standard"
       /\ Len(out.formulaPlan.nutrientBalances) = Len(out.rows)

Clamped == pc \notin {"idle", "clamp"}

\* C9 as stated: the scoop size used is max(0.1, scoopSizeG) for every numeric
\* scoopSizeG, 0 and negative values included.
C9_FlooredAtTenth ==
  (Clamped /\ IsNum(given.scoopSizeG)) =>
    safe.scoop = (IF given.scoopSizeG[1] * 10 < given.scoopSizeG[2] THEN Q(1, 10) ELSE given.scoopSizeG)

\* C9 amended: the scoop size used is max(0.1, scoopSizeG) for every non-zero
\* numeric scoopSizeG and the default 5 for 0 (and for a missing value); it is
\* never below 0.1, and every 100g-basis item has scoops = amount / scoop size.
C9_ScoopSizeUsed ==
  /\ Clamped =>
       /\ safe.scoop =
            (IF ~IsNum(given.scoopSizeG) \/ given.scoopSizeG[1] = 0 THEN Int2Q(5)
             ELSE IF given.scoopSizeG[1] * 10 < given.scoopSizeG[2] THEN Q(1, 10)
             ELSE given.scoopSizeG)
       /\ safe.scoop[1] * 10 >= safe.scoop[2]
  /\ pc = "done" =>
       \A i \in 1..Len(out.formulaPlan.items.list) :
         out.formulaPlan.items.list[i].basis = "100g" =>
           /\ IsNum(out.formulaPlan.items.list[i].scoops)
           /\ RMul(out.formulaPlan.items.list[i].scoops, safe.scoop) = out.formulaPlan.items.list[i].amount

\* A powder dosed with scoop sizes 0, negative and below 0.1.
C9_Witness ==
  /\ pc = "done"
  /\ given.scoopSizeG \in {Zero, Int2Q(-1), Q(1, 20)}
  /\ out.formulaPlan.items.list[1].basis = "100g"
  /\ RGt(out.formulaPlan.items.list[1].scoops, Zero)

IsInteger(x) == IsNum(x) /\ x[2] = 1
\* min(max(0, i), n - 1) on integers.
ClampIndex(i, n) == IF i < 0 THEN 0 ELSE IF i > n - 1 THEN n - 1 ELSE i
GuideCount == Len(GUIDELINES[given.disease])
Nutrients(guide) == [k \in 1..Len(guide.nutrients) |-> guide.nutrients[k].nutrient]

Returned(fn) == helper.fn = fn /\ ~helper.pending

\* The values of the parts of a key, in order.
PartValues(parts, values) == [i \in 1..Len(parts) |-> Lookup(values, parts[i])]
AllPresent(parts, values) == \A i \in 1..Len(parts) : IsNum(Lookup(values, parts[i]))

\* C11 as stated: resolveCompositeValue returns values[key] when present;
\* otherwise for a key with "+" the sum over all its trimmed parts when every
\* trimmed part is present and undefined when any is missing; undefined for an
\* absent key without "+".
C11_AllTrimmedParts ==
  Returned("resolveCompositeValue") =>
    LET key == helper.args.key
        values == helper.args.values
    IN  helper.ret =
          IF IsNum(Lookup(values, key)) THEN Lookup(values, key)
          ELSE IF ~Includes(key, "+") THEN NaN
          ELSE IF AllPresent(TrimmedParts(key), values)
            THEN SumSeq(PartValues(TrimmedParts(key), values))
          ELSE NaN

\* C11 amended: the parts that count are the non-empty trimmed parts (the
\* empty ones are dropped): the result is values[key] when present; otherwise
\* for a key with "+" the sum over its non-empty trimmed parts when each of them
\* is present (0 when there is none) and undefined when one is missing, never a
\* partial sum; undefined for an absent key without "+".
C11_AllOrNothing ==
  Returned("resolveCompositeValue") =>
    LET key == helper.args.key
        values == helper.args.values
    IN  helper.ret =
          IF IsNum(Lookup(values, key)) THEN Lookup(values, key)
          ELSE IF ~Includes(key, "+") THEN NaN
          ELSE IF AllPresent(NonEmptyParts(key), values)
            THEN SumSeq(PartValues(NonEmptyParts(key), values))
          ELSE NaN

\* "A+B" resolved against a table that has A but not B (and no direct entry):
\* undefined, although A alone has a value above 0.
C11_Witness ==
  /\ Returned("resolveCompositeValue")
  /\ helper.args.key = <<"A", "+", "B">>
  /\ DOMAIN helper.args.values = {K("A")}
  /\ RGt(helper.args.values[K("A")], Zero)
  /\ helper.ret = NaN

Resolved == pc \in {"stage1", "stage2", "stage3", "report", "done"}
\* The guideline entry row k was resolved from.
SourceOf(k) == GUIDELINES[given.disease][ClampIndex(given.ageGroupIndex[1], GuideCount) + 1].nutrients[k].source
\* max(0, weightKg || 0) of the call.
ClampedWeight == IF RGt(given.weightKg, Zero) THEN given.weightKg ELSE Zero
DailyFamily ==
  [u \in {"mg/kg", "mg/day"} |-> "mg/day"] @@ [u \in {"g/kg", "g/day"} |-> "g/day"] @@
  [u \in {"kcal/kg", "kcal/day"} |-> "kcal/day"] @@ [u \in {"mL/kg", "mL/day"} |-> "mL/day"] @@
  [u \in {"%energy"} |-> "%energy"]
Scaled(value, unit) ==
  IF unit \in {"mg/kg", "g/kg", "kcal/kg", "mL/kg"} THEN RMul(value, ClampedWeight) ELSE value

\* C12: every resolved row has totalMin, totalMax and totalTarget equal to the
\* guideline value times the clamped weight for a per-kilogram unit and equal
\* to the guideline value for an absolute unit (%energy included), and
\* totalUnit is the daily unit of the family, the same for X/kg and X/day.
C12_UnitConversion ==
  Resolved =>
    \A k \in 1..Len(rows) :
      /\ rows[k].totalMin = Scaled(SourceOf(k).min, SourceOf(k).unit)
      /\ rows[k].totalMax = Scaled(SourceOf(k).max, SourceOf(k).unit)
      /\ \E v \in {SourceOf(k).min, SourceOf(k).max, SourceOf(k).mid,
                    RDiv(RAdd(SourceOf(k).min, SourceOf(k).max), Int2Q(2))} :
           IsNum(v) /\ rows[k].totalTarget = Scaled(v, SourceOf(k).unit)
      /\ rows[k].totalUnit = DailyFamily[SourceOf(k).unit]

\* At a weight above 1 a per-kilogram row is multiplied while a %energy row and
\* a per-day row of the same guideline keep their values.
C12_Witness ==
  /\ Resolved
  /\ RGt(given.weightKg, Int2Q(1))
  /\ \E i, j, k \in 1..Len(rows) :
       /\ SourceOf(i).unit = "g/kg" /\ rows[i].totalMax = RMul(SourceOf(i).max, given.weightKg)
       /\ rows[i].totalMax # SourceOf(i).max /\ rows[i].totalUnit = "g/day"
       /\ SourceOf(j).unit = "%energy" /\ rows[j].totalMax = SourceOf(j).max
       /\ rows[j].totalUnit = "%energy"
       /\ SourceOf(k).unit = "kcal/day" /\ rows[k].totalMin = SourceOf(k).min
       /\ rows[k].totalUnit = "kcal/day"

\* C13: pickTarget returns min for a minOnly range in every mode; for another
\* range min in mode MIN, max in mode MAX, and in mode MID the explicit mid when
\* one is given and (min + max) / 2 otherwise.
C13_TargetPolicy ==
  Returned("pickTarget") =>
    LET range == helper.args.range
        mode == helper.args.mode
    IN  /\ range.minOnly => helper.ret = range.min
        /\ (~range.minOnly /\ mode = "MIN") => helper.ret = range.min
        /\ (~range.minOnly /\ mode = "MAX") => helper.ret = range.max
        /\ (~range.minOnly /\ mode = "MID" /\ range.mid # NaN) => helper.ret = range.mid
        /\ (~range.minOnly /\ mode = "MID" /\ range.mid = NaN) =>
             RMul(helper.ret, Int2Q(2)) = RAdd(range.min, range.max)

\* A minOnly range asked in mode MAX whose max and mid differ from its min.
C13_Witness ==
  /\ Returned("pickTarget")
  /\ helper.args.range.minOnly
  /\ helper.args.mode = "MAX"
  /\ RLt(helper.args.range.min, helper.args.range.max)
  /\ IsNum(helper.args.range.mid) /\ helper.args.range.mid # helper.args.range.min
  /\ helper.ret = helper.args.range.min

\* x < y - EPSILON
BelowBy(x, y) == GtEps(RSub(y, x))

\* C14: in every result each row's status is LOW exactly when delivered <
\* totalMin - EPSILON, HIGH exactly when the row is not minOnly, not LOW and
\* delivered > totalMax + EPSILON, and NORMAL otherwise; so a minOnly row is
\* never HIGH, a row delivered exactly at totalMax is NORMAL and no status is NA.
C14_Status ==
  pc = "done" =>
    \A k \in 1..Len(rows) :
      LET b == BalanceOf(k)
          low == BelowBy(b.delivered, rows[k].totalMin)
          high == ~rows[k].source.minOnly /\ ~low /\ BelowBy(rows[k].totalMax, b.delivered)
      IN  /\ b.status \in {"LOW", "NORMAL", "HIGH"}
          /\ b.status = "LOW" <=> low
          /\ b.status = "HIGH" <=> high
          /\ b.status = "NORMAL" <=> (~low /\ ~high)
          /\ rows[k].source.minOnly => b.status # "HIGH"
          /\ (b.delivered = rows[k].totalMax /\ RLe(rows[k].totalMin, rows[k].totalMax)) =>
               b.status = "NORMAL"

\* One result with a LOW row, a HIGH row, a row exactly at its totalMax that is
\* NORMAL and a minOnly row delivered above its totalMax that is NORMAL.
C14_Witness ==
  /\ pc = "done"
  /\ \E i, j, k, m \in 1..Len(rows) :
       /\ BalanceOf(i).status = "LOW"
       /\ BalanceOf(j).status = "HIGH"
       /\ BalanceOf(k).delivered = rows[k].totalMax /\ RGt(rows[k].totalMax, Zero)
       /\ BalanceOf(k).status = "NORMAL"
       /\ rows[m].source.minOnly /\ BelowBy(rows[m].totalMax, BalanceOf(m).delivered)
       /\ BalanceOf(m).status = "NORMAL"

StageOrder == <<"standard", "special", "modular">>
StagesDone ==
  CASE pc = "stage2" -> 1
    [] pc = "stage3" -> 2
    [] pc \in {"report", "done"} -> 3
    [] OTHER -> 0
Roles(items) == [i \in 1..Len(items) |-> items[i].role]
RolesFor(formulas, stages) ==
  SelectSeq(SubSeq(StageOrder, 1, stages),
            LAMBDA role : role = "standard" \/ formulas[role] # NoFormula)

\* C15: the stages run once each in the order standard, special, modular (the
\* stages run so far are always the first ones of that order, none twice), and
\* the items are one standard item, then one special item iff a special formula
\* was supplied, then one modular item iff a modular formula was supplied: the
\* returned list has 1 to 3 items with distinct roles.
C15_StageOrder ==
  /\ trail = SubSeq(StageOrder, 1, StagesDone)
  /\ Roles(planItems.list) = RolesFor(given.formulas, StagesDone)
  /\ pc = "done" =>
       /\ out.formulaPlan.items.list = planItems.list
       /\ Len(out.formulaPlan.items.list) \in 1..3
       /\ \A i, j \in 1..Len(out.formulaPlan.items.list) :
            i # j => out.formulaPlan.items.list[i].role # out.formulaPlan.items.list[j].role

\* A returned plan of three items in stage order whose special item has amount 0.
C15_Witness ==
  /\ pc = "done"
  /\ trail = StageOrder
  /\ Roles(out.formulaPlan.items.list) = StageOrder
  /\ out.formulaPlan.items.list[2].amount = Zero
  /\ RGt(out.formulaPlan.items.list[1].amount, Zero)

\* The rows that qualify as ceilings of the standard formula, and the amount
\* of standard formula that brings row k to its totalMax.
Qualifying == {k \in 1..Len(rows) : Sizes(rows[k], given.formulas.standard)}
CeilingAmount(k) ==
  RDiv(RMul(rows[k].totalMax, Int2Q(100)), formulaNutrient(given.formulas.standard, rows[k].nutrient))
Tightest(k) == \A j \in Qualifying : RLe(CeilingAmount(k), CeilingAmount(j))
FirstTightest(k) ==
  /\ k \in Qualifying
  /\ Tightest(k)
  /\ \A j \in Qualifying : j < k => ~Tightest(j)

\* C16: when at least one nutrient qualifies (amino-acid-like, not minOnly,
\* standard content > EPSILON), standardAmount is max(0, the least of their
\* totalMax * 100 / per100) and the limiting nutrient is the first one in
\* guideline order that attains it.
C16_TightestCeiling ==
  (AfterStage1 /\ Qualifying # {}) =>
    \E k \in Qualifying :
      /\ FirstTightest(k)
      /\ sizing.standardAmount = RMax(Zero, CeilingAmount(k))
      /\ StandardItem.amount = sizing.standardAmount
      /\ sizing.limitingNutrientForStandard = rows[k].nutrient

\* Two nutrients tie for the tightest ceiling and the earlier one is recorded.
C16_Witness ==
  /\ pc = "stage2"
  /\ RGt(sizing.standardAmount, Zero)
  /\ \E j, k \in Qualifying :
       /\ j < k
       /\ Tightest(j) /\ Tightest(k)
       /\ sizing.limitingNutrientForStandard = rows[j].nutrient

NotesOf(kind) == {i \in 1..Len(planNotes.list) : planNotes.list[i].kind = kind}
FellBack == AfterStage1 /\ Len(sizing.limitingNutrientForStandard) = 0

\* C17 as stated: whenever stage 1 found no finite limiting amount,
\* standardAmount is targetProtein * 100 / standardProteinPer100 with a note
\* that sizing fell back to the protein target when the standard formula has
\* protein > 0, and 0 with a note that the standard formula cannot resolve the
\* deficit otherwise; exactly one of the two notes is recorded in every such
\* case, a protein target of 0 or a guideline without Protein row included.
C17_FallbackAlwaysNoted ==
  FellBack =>
    LET targetProtein == OrElse(Lookup(targetByNutrient(rows), K("Protein")), Zero)
        standardProteinPer100 == OrElse(Lookup(given.formulas.standard.values, K("Protein")), Zero)
    IN  /\ Cardinality(NotesOf("protein-fallback")) + Cardinality(NotesOf("standard-zero-protein")) = 1
        /\ IF RGt(standardProteinPer100, Zero)
             THEN /\ sizing.standardAmount = RDiv(RMul(targetProtein, Int2Q(100)), standardProteinPer100)
                  /\ NotesOf("protein-fallback") # {}
             ELSE /\ sizing.standardAmount = Zero
                  /\ NotesOf("standard-zero-protein") # {}

Excluded ==
  {K("Energy"), K("Protein"), K("Fluid"), K("Fat"), K("Carbohydrate"),
   K("LinoleicAcid"), K("LinolenicAcid")}
\* Amino-acid-like as the claim defines it (the parts are the trimmed parts).
AminoLike(key) ==
  IF ~Includes(key, "+") THEN key \notin Excluded
  ELSE \A part \in {TrimmedParts(key)[i] : i \in 1..Len(TrimmedParts(key))} :
         part # <<>> /\ part \notin Excluded
\* Keys classified besides the guideline's own: simple, composite, with an
\* excluded part, with an empty part, with blanks.
ClassifiedKeys ==
  { K("PHE"), K("Fluid"), K("LinolenicAcid"), <<"PHE", "+", "TYR">>, <<"PHE", "+", "Energy">>,
    <<"Fat", "+", "Protein">>, <<"PHE", "+">>, <<"+", "TYR">>, <<"PHE", "+", " ", "+", "TYR">>,
    <<"PHE", " ", "+", " ", "TYR">>, <<"PHE", " ", "+", " ", "Fat">>, <<"+">>, <<>> }
AltRanges == {<<0, 0>>, <<1, 7>>, <<500, 900>>}
\* The rows with the range of row k replaced.
WithRange(k, r) ==
  [rows EXCEPT ![k].totalMin = Int2Q(r[1]), ![k].totalMax = Int2Q(r[2]),
               ![k].totalTarget = Int2Q(r[1]),
               ![k].source.min = Int2Q(r[1]), ![k].source.max = Int2Q(r[2])]

\* C18: the limiting nutrient of stage 1 is always amino-acid-like and not
\* minOnly, where a simple key is amino-acid-like iff it is none of Energy,
\* Protein, Fluid, Fat, Carbohydrate, LinoleicAcid, LinolenicAcid and a "+"-key
\* iff each of its parts is non-empty and none of them; and while a finite
\* ceiling exists, another range for an excluded or minOnly nutrient leaves
\* standardAmount as it is.
C18_ConstraintSet ==
  /\ pc = "stage2" =>
       \A key \in ClassifiedKeys \cup RowKeys(rows) : isAminoAcidNutrient(key) <=> AminoLike(key)
  /\ (AfterStage1 /\ Len(sizing.limitingNutrientForStandard) > 0) =>
       \E k \in 1..Len(rows) :
         /\ rows[k].nutrient = sizing.limitingNutrientForStandard
         /\ AminoLike(rows[k].nutrient)
         /\ ~rows[k].source.minOnly
  /\ (pc = "stage2" /\ Len(sizing.limitingNutrientForStandard) > 0) =>
       \A k \in 1..Len(rows) :
         (~AminoLike(rows[k].nutrient) \/ rows[k].source.minOnly) =>
           \A r \in AltRanges :
             StandardSizing(WithRange(k, r), given.formulas.standard).amount = sizing.standardAmount

\* Stage 1 sized by a ceiling although a minOnly amino acid the standard
\* formula contains would have given a lower one, next to an excluded nutrient
\* the standard formula contains too.
C18_Witness ==
  /\ pc = "stage2"
  /\ Len(sizing.limitingNutrientForStandard) > 0
  /\ RGt(sizing.standardAmount, Zero)
  /\ \E j, k \in 1..Len(rows) :
       /\ AminoLike(rows[j].nutrient) /\ rows[j].source.minOnly
       /\ GtEps(formulaNutrient(given.formulas.standard, rows[j].nutrient))
       /\ RLt(CeilingAmount(j), sizing.standardAmount)
       /\ ~AminoLike(rows[k].nutrient)
       /\ GtEps(formulaNutrient(given.formulas.standard, rows[k].nutrient))

AfterStage2 == pc \in {"stage3", "report", "done"}
\* The guideline target of a completion nutrient (NaN when it has no row).
TargetOf(n) == IF \E k \in 1..Len(rows) : rows[k].nutrient = n
               THEN rows[CHOOSE k \in 1..Len(rows) : rows[k].nutrient = n].totalTarget ELSE NaN
\* Content per 100 of a formula, 0 when it lists none.
ContentOf(formula, n) == IF n \in DOMAIN formula.values THEN formula.values[n] ELSE Zero
FromStandard(n) == RDiv(RMul(ContentOf(given.formulas.standard, n), sizing.standardAmount), Int2Q(100))
DeficitAfterStandard(n) == RMax(Zero, RSub(TargetOf(n), FromStandard(n)))
\* The completion nutrients that take part in sizing the special formula.
SpecialSized ==
  {n \in CompletionNutrients :
     /\ IsNum(TargetOf(n))
     /\ GtEps(DeficitAfterStandard(n))
     /\ GtEps(ContentOf(given.formulas.special, n))}
SpecialNeed(n) == RDiv(RMul(DeficitAfterStandard(n), Int2Q(100)), ContentOf(given.formulas.special, n))

\* C19: with a special formula, specialAmount is the largest deficit * 100 /
\* per100 over the completion nutrients with a resolved target, a deficit after
\* the standard item above EPSILON and special content above EPSILON, and 0
\* when there is none; without a special formula it is 0.
C19_SpecialAmount ==
  AfterStage2 =>
    IF given.formulas.special = NoFormula \/ SpecialSized = {}
      THEN sizing.specialAmount = Zero
    ELSE /\ \E n \in SpecialSized : sizing.specialAmount = SpecialNeed(n)
         /\ \A n \in SpecialSized : RLe(SpecialNeed(n), sizing.specialAmount)
         /\ ItemOf("special").amount = sizing.specialAmount

\* Protein and energy both take part and protein, the first of the two, needs
\* more special formula than energy.
C19_Witness ==
  /\ pc = "stage3"
  /\ RGt(sizing.standardAmount, Zero)
  /\ {K("Protein"), K("Energy")} \subseteq SpecialSized
  /\ RGt(SpecialNeed(K("Protein")), SpecialNeed(K("Energy")))
  /\ sizing.specialAmount = SpecialNeed(K("Protein"))

FromSpecial(n) == RDiv(RMul(ContentOf(given.formulas.special, n), ItemOf("special").amount), Int2Q(100))
AfterSpecial(n) == RAdd(FromStandard(n), FromSpecial(n))

\* C20: once the special item is added, every completion nutrient with a
\* resolved target of which the special formula contains more than EPSILON per
\* 100 is delivered by standard + special at least up to target - EPSILON.
C20_DeficitsClosed ==
  (AfterStage2 /\ given.formulas.special # NoFormula) =>
    \A n \in CompletionNutrients :
      (IsNum(TargetOf(n)) /\ GtEps(ContentOf(given.formulas.special, n))) =>
        ~GtEps(RSub(TargetOf(n), AfterSpecial(n)))

\* Two nutrients had a deficit after the standard item; the special amount
\* closes one exactly and takes the other above its target.
C20_Witness ==
  /\ pc = "stage3"
  /\ given.formulas.special # NoFormula
  /\ RGt(sizing.standardAmount, Zero)
  /\ \E m, n \in SpecialSized :
       /\ AfterSpecial(m) = TargetOf(m)
       /\ RGt(AfterSpecial(n), TargetOf(n))

AfterStage3 == pc \in {"report", "done"}
\* What the standard and special items deliver of a completion nutrient.
BeforeModular(n) == IF HasItem("special") THEN AfterSpecial(n) ELSE FromStandard(n)
DeficitBeforeModular(n) == RMax(Zero, RSub(TargetOf(n), BeforeModular(n)))
\* The completion nutrients that take part in sizing the modular formula.
ModularSized ==
  {n \in CompletionNutrients :
     /\ IsNum(TargetOf(n))
     /\ GtEps(DeficitBeforeModular(n))
     /\ GtEps(ContentOf(given.formulas.modular, n))}
ModularNeed(n) == RDiv(RMul(DeficitBeforeModular(n), Int2Q(100)), ContentOf(given.formulas.modular, n))

\* C21: the modular amount is the largest deficit * 100 / per100 over Protein,
\* Energy, Carbohydrate and Fat, the deficits being measured against what the
\* standard and special items together deliver; so it is 0 whenever these two
\* reach every resolved completion target within EPSILON.
C21_ModularSeesSpecial ==
  AfterStage3 =>
    /\ IF given.formulas.modular = NoFormula \/ ModularSized = {}
         THEN sizing.modularAmount = Zero
         ELSE /\ \E n \in ModularSized : sizing.modularAmount = ModularNeed(n)
              /\ \A n \in ModularSized : RLe(ModularNeed(n), sizing.modularAmount)
              /\ ItemOf("modular").amount = sizing.modularAmount
    /\ (\A n \in CompletionNutrients : IsNum(TargetOf(n)) => ~GtEps(DeficitBeforeModular(n))) =>
         sizing.modularAmount = Zero

\* The special item closed a deficit the standard item had left in a nutrient
\* the modular formula contains: the modular amount is 0.
C21_Witness ==
  /\ pc = "report"
  /\ given.formulas.modular # NoFormula
  /\ HasItem("special") /\ RGt(sizing.specialAmount, Zero)
  /\ \E n \in CompletionNutrients :
       /\ IsNum(TargetOf(n))
       /\ GtEps(RSub(TargetOf(n), FromStandard(n)))
       /\ GtEps(ContentOf(given.formulas.modular, n))
  /\ \A n \in CompletionNutrients : IsNum(TargetOf(n)) => ~GtEps(DeficitBeforeModular(n))
  /\ sizing.modularAmount = Zero

LabelOf(n) ==
  CASE n = K("Protein") -> "protein"
    [] n = K("Energy") -> "calories"
    [] n = K("Carbohydrate") -> "carbohydrate"
    [] n = K("Fat") -> "fat"
ReturnedNotes == {out.formulaPlan.notes.list[i] : i \in 1..Len(out.formulaPlan.notes.list)}
\* Row k is a completion nutrient that ends more than EPSILON below its target.
EndsShort(k) ==
  /\ rows[k].nutrient \in CompletionNutrients
  /\ IsNum(rows[k].totalTarget)
  /\ GtEps(RSub(rows[k].totalTarget, BalanceOf(k).delivered))

\* C22: every call returns a result, and in a result where a completion
\* nutrient with a resolved target ends with target - delivered > EPSILON the
\* notes are not empty: they hold the note that no modular formula is selected
\* or the note that the modular formula has none of that nutrient.
C22_NoSilentDeficit ==
  /\ pc # "threw"
  /\ pc = "done" =>
       /\ out.returned
       /\ \A k \in 1..Len(rows) :
            EndsShort(k) =>
              /\ Len(out.formulaPlan.notes.list) >= 1
              /\ IF given.formulas.modular = NoFormula
                   THEN Note("no-modular-selected", <<>>) \in ReturnedNotes
                   ELSE ZeroNote("Modular formula", LabelOf(rows[k].nutrient)) \in ReturnedNotes

\* A plan of three items that leaves a deficit neither the special nor the
\* modular formula can fill, with its note.
C22_Witness ==
  /\ pc = "done"
  /\ Len(planItems.list) = 3
  /\ RGt(sizing.specialAmount, Zero)
  /\ \E k \in 1..Len(rows) :
       /\ EndsShort(k)
       /\ ZeroNote("Modular formula", LabelOf(rows[k].nutrient)) \in ReturnedNotes

ShortAfterStandard ==
  \E n \in CompletionNutrients : IsNum(TargetOf(n)) /\ GtEps(RSub(TargetOf(n), FromStandard(n)))
ShortBeforeModular ==
  \E n \in CompletionNutrients : IsNum(TargetOf(n)) /\ GtEps(RSub(TargetOf(n), BeforeModular(n)))

\* C23: the note that no special formula is selected is recorded iff none is
\* supplied and a completion nutrient is more than EPSILON short after the
\* standard item; the note that no modular formula is selected iff none is
\* supplied and a completion nutrient is more than EPSILON short after the
\* standard and special items.
C23_MissingRoleNotes ==
  /\ AfterStage2 =>
       (NotesOf("no-special-selected") # {}
          <=> (given.formulas.special = NoFormula /\ ShortAfterStandard))
  /\ AfterStage3 =>
       (NotesOf("no-modular-selected") # {}
          <=> (given.formulas.modular = NoFormula /\ ShortBeforeModular))
  /\ ~AfterStage2 => NotesOf("no-special-selected") = {}
  /\ ~AfterStage3 => NotesOf("no-modular-selected") = {}

\* No modular formula: the special item left a nutrient short and the note is
\* there, while the special formula's own note is not.
C23_Witness ==
  /\ pc = "done"
  /\ given.formulas.modular = NoFormula
  /\ HasItem("special") /\ RGt(sizing.specialAmount, Zero)
  /\ ShortBeforeModular
  /\ NotesOf("no-modular-selected") # {}
  /\ NotesOf("no-special-selected") = {}

Notes == {planNotes.list[i] : i \in 1..Len(planNotes.list)}
\* Nutrient n is short by more than EPSILON and the formula has none of it.
Unfillable(formula, n, deficit) ==
  /\ IsNum(TargetOf(n))
  /\ GtEps(deficit)
  /\ ~GtEps(ContentOf(formula, n))

\* C24: while a supplied special or modular formula is sized, the note "<formula>
\* has zero <nutrient>, so <nutrient> deficit remains" is recorded for a
\* completion nutrient iff it has a resolved target, its deficit against the
\* items allocated so far is above EPSILON and the formula's content of it is
\* absent or at most EPSILON; such nutrients do not raise the amount (it is 0
\* when every short nutrient is of this kind).
C24_ZeroContentNotes ==
  /\ \A n \in CompletionNutrients :
       /\ ZeroNote("Special formula", LabelOf(n)) \in Notes <=>
            /\ AfterStage2
            /\ given.formulas.special # NoFormula
            /\ Unfillable(given.formulas.special, n, DeficitAfterStandard(n))
       /\ ZeroNote("Modular formula", LabelOf(n)) \in Notes <=>
            /\ AfterStage3
            /\ given.formulas.modular # NoFormula
            /\ Unfillable(given.formulas.modular, n, DeficitBeforeModular(n))
  /\ (AfterStage2 /\ SpecialSized = {}) => sizing.specialAmount = Zero
  /\ (AfterStage3 /\ ModularSized = {}) => sizing.modularAmount = Zero

\* The special formula is sized by one nutrient and has none of another that
\* is short too: the note is there and the amount is the first one's need.  The
\* modular formula to be sized next lists that other nutrient with content 0.
C24_Witness ==
  /\ pc = "stage3"
  /\ \E m \in SpecialSized : sizing.specialAmount = SpecialNeed(m)
  /\ \E n \in CompletionNutrients :
       /\ Unfillable(given.formulas.special, n, DeficitAfterStandard(n))
       /\ ZeroNote("Special formula", LabelOf(n)) \in Notes
       /\ n \in DOMAIN given.formulas.modular.values
       /\ given.formulas.modular.values[n] = Zero

ReturnedItems == out.formulaPlan.items.list
\* The content per 100 of a formula for a simple or composite key: the direct
\* entry, else the sum of the parts when it has every part, else nothing.
Resolvable(formula, key) ==
  \/ key \in DOMAIN formula.values
  \/ Includes(key, "+") /\ AllPresent(NonEmptyParts(key), formula.values)
ResolvedContent(formula, key) ==
  IF key \in DOMAIN formula.values THEN formula.values[key]
  ELSE SumSeq(PartValues(NonEmptyParts(key), formula.values))
ItemShare(item, key) ==
  IF Resolvable(given.formulas[item.role], key)
    THEN RDiv(RMul(ResolvedContent(given.formulas[item.role], key), item.amount), Int2Q(100))
  ELSE Zero

\* C25: the result has one balance row per resolved row, in the same order; its
\* delivered is totals.kcal for Energy, totals.protein for Protein,
\* totals.finalVolumeMl for Fluid and otherwise the sum over the items of the
\* composite-resolved content of the item's own formula * amount / 100, an item
\* whose formula lacks the nutrient or a part of it adding 0.
C25_BalanceDelivered ==
  pc = "done" =>
    /\ Len(out.formulaPlan.nutrientBalances) = Len(out.rows)
    /\ out.rows = rows
    /\ \A k \in 1..Len(rows) :
         /\ BalanceOf(k).nutrient = rows[k].nutrient
         /\ BalanceOf(k).delivered =
              CASE rows[k].nutrient = K("Energy") -> out.formulaPlan.totals.kcal
                [] rows[k].nutrient = K("Protein") -> out.formulaPlan.totals.protein
                [] rows[k].nutrient = K("Fluid") -> out.formulaPlan.totals.finalVolumeMl
                [] OTHER -> SumSeq([i \in 1..Len(ReturnedItems) |->
                                      ItemShare(ReturnedItems[i], rows[k].nutrient)])

\* A composite nutrient of which the standard formula has one part only (it
\* adds nothing) while the special formula has both and adds its share.
C25_Witness ==
  /\ pc = "done"
  /\ Len(ReturnedItems) >= 2
  /\ RGt(ReturnedItems[1].amount, Zero)
  /\ \E k \in 1..Len(rows) :
       /\ Includes(rows[k].nutrient, "+")
       /\ ~Resolvable(given.formulas.standard, rows[k].nutrient)
       /\ \E i \in 1..Len(NonEmptyParts(rows[k].nutrient)) :
            GtEps(ContentOf(given.formulas.standard, NonEmptyParts(rows[k].nutrient)[i]))
       /\ RGt(BalanceOf(k).delivered, Zero)
       /\ BalanceOf(k).delivered = ItemShare(ReturnedItems[2], rows[k].nutrient)

\* The shape of an item of a ready-to-feed formula and of a powder.
LiquidShape(item) ==
  /\ item.amountUnit = "mL/day"
  /\ item.scoops = NaN /\ item.waterMl = NaN
  /\ item.perFeedScoops = NaN /\ item.perFeedWaterMl = NaN
PowderShape(item) ==
  /\ item.amountUnit = "g/day"
  /\ RMul(item.scoops, safe.scoop) = item.amount
  /\ item.waterMl = RMul(item.scoops, safe.water)
  /\ RMul(item.perFeedAmount, safe.feeds) = item.amount
  /\ RMul(item.perFeedScoops, safe.feeds) = item.scoops
  /\ RMul(item.perFeedWaterMl, safe.feeds) = item.waterMl

\* C26: every plan item of a 100mL-basis formula has amountUnit mL/day and no
\* scoops, waterMl, perFeedScoops and perFeedWaterMl; every plan item of a
\* 100g-basis formula has amountUnit g/day, scoops = amount / scoop size,
\* waterMl = scoops * water per scoop and per-feed values that are the daily
\* ones divided by the feeds per day.
C26_ShapeByBasis ==
  \A i \in 1..Len(planItems.list) :
    LET item == planItems.list[i]
    IN  /\ item.basis = given.formulas[item.role].basis
        /\ item.basis \in {"100g", "100mL"}
        /\ item.basis = "100mL" => LiquidShape(item)
        /\ item.basis = "100g" => PowderShape(item)

\* A ready-to-feed standard item next to a powder special item, prepared with
\* a scoop size and a number of feeds that were clamped.
C26_Witness ==
  /\ pc = "done"
  /\ Len(planItems.list) >= 2
  /\ planItems.list[1].basis = "100mL" /\ RGt(planItems.list[1].amount, Zero)
  /\ planItems.list[2].basis = "100g" /\ RGt(planItems.list[2].waterMl, Zero)
  /\ RGt(planItems.list[2].perFeedScoops, Zero)
  /\ RLt(planItems.list[2].perFeedScoops, planItems.list[2].scoops)
  /\ given.scoopSizeG # safe.scoop
  /\ given.feedsPerDay # safe.feeds

\* The sum, over the (at most three) returned items, of what Term gives for each.
OverItems(Term(_)) ==
  RAdd(RAdd(IF Len(ReturnedItems) >= 1 THEN Term(ReturnedItems[1]) ELSE Zero,
            IF Len(ReturnedItems) >= 2 THEN Term(ReturnedItems[2]) ELSE Zero),
       IF Len(ReturnedItems) >= 3 THEN Term(ReturnedItems[3]) ELSE Zero)
KcalOf(item) == item.kcal
ProteinOf(item) == item.protein
GramsOf(item) == IF item.amountUnit = "g/day" THEN item.amount ELSE Zero
MillilitresOf(item) == IF item.amountUnit = "mL/day" THEN item.amount ELSE Zero
ScoopsOf(item) == IF item.scoops = NaN THEN Zero ELSE item.scoops
WaterOf(item) == IF item.waterMl = NaN THEN Zero ELSE item.waterMl
\* A target of the guideline, 0 when it has no such row.
TargetOrZero(n) == IF IsNum(TargetOf(n)) THEN TargetOf(n) ELSE Zero

\* C27: totals.kcal and totals.protein are the sums of the items' kcal and
\* protein; powderG sums the amounts of the g/day items and readyToFeedMl those
\* of the mL/day items; scoops and waterMl sum the items' scoops and water;
\* finalVolumeMl = readyToFeedMl + waterMl; scoopsPerFeed and volumePerFeedMl
\* are scoops and finalVolumeMl divided by the clamped feeds per day;
\* deficits.protein = max(0, targetProtein - totals.protein) and
\* deficits.energy = max(0, targetEnergy - totals.kcal), a target the guideline
\* does not have counting as 0.
C27_TotalsConsistent ==
  pc = "done" =>
    LET totals == out.formulaPlan.totals
        deficits == out.formulaPlan.deficits
    IN  /\ Len(ReturnedItems) \in 1..3
        /\ totals.kcal = OverItems(KcalOf)
        /\ totals.protein = OverItems(ProteinOf)
        /\ totals.powderG = OverItems(GramsOf)
        /\ totals.readyToFeedMl = OverItems(MillilitresOf)
        /\ totals.scoops = OverItems(ScoopsOf)
        /\ totals.waterMl = OverItems(WaterOf)
        /\ totals.finalVolumeMl = RAdd(totals.readyToFeedMl, totals.waterMl)
        /\ RMul(totals.scoopsPerFeed, safe.feeds) = totals.scoops
        /\ RMul(totals.volumePerFeedMl, safe.feeds) = totals.finalVolumeMl
        /\ deficits.protein = RMax(Zero, RSub(TargetOrZero(K("Protein")), totals.protein))
        /\ deficits.energy = RMax(Zero, RSub(TargetOrZero(K("Energy")), totals.kcal))

\* A plan mixing a ready-to-feed item and powder items, with feeds that were
\* clamped.
C27_Witness ==
  /\ pc = "done"
  /\ Len(ReturnedItems) = 3
  /\ RGt(out.formulaPlan.totals.readyToFeedMl, Zero)
  /\ RGt(out.formulaPlan.totals.powderG, Zero)
  /\ RGt(out.formulaPlan.totals.waterMl, Zero)
  /\ RLt(out.formulaPlan.totals.scoopsPerFeed, out.formulaPlan.totals.scoops)
  /\ given.feedsPerDay # safe.feeds
  /\ RGt(out.formulaPlan.totals.kcal, Zero)

\* The kept call and the current one differ at most in the formulas of roles.
SameBut(roles) ==
  /\ [memo.given EXCEPT !.formulas = given.formulas] = given
  /\ \A role \in {"standard", "special", "modular"} \ roles :
       memo.given.formulas[role] = given.formulas[role]
\* The items of a result up to and including the special one.
UpToSpecial(result, call) ==
  SubSeq(result.formulaPlan.items.list, 1, IF call.formulas.special = NoFormula THEN 1 ELSE 2)

\* C28: two calls that differ only in the special and/or modular formula
\* (present, absent or with other contents) return the same standard item, and
\* two calls that differ only in the modular formula return the same standard
\* and special items.
C28_NoBacktracking ==
  (pc = "done" /\ memo.kept) =>
    /\ SameBut({"special", "modular"}) =>
         out.formulaPlan.items.list[1] = memo.out.formulaPlan.items.list[1]
    /\ SameBut({"modular"}) => UpToSpecial(out, given) = UpToSpecial(memo.out, memo.given)

\* A call with a special and a modular formula after the same call with
\* another special formula and no modular one: the standard item is the same
\* and the special items differ.
C28_Witness ==
  /\ pc = "done"
  /\ memo.kept
  /\ SameBut({"special", "modular"})
  /\ memo.given.formulas.special \notin {NoFormula, given.formulas.special}
  /\ given.formulas.special # NoFormula
  /\ memo.given.formulas.modular = NoFormula /\ given.formulas.modular # NoFormula
  /\ RGt(out.formulaPlan.items.list[1].amount, Zero)
  /\ RGt(out.formulaPlan.items.list[2].amount, Zero)
  /\ out.formulaPlan.items.list[2].amount # memo.out.formulaPlan.items.list[2].amount

\* The kept call and the current one differ at most in the target mode.
SameButMode == [memo.given EXCEPT !.targetMode = given.targetMode] = given
\* The notes of a result that name the limiting nutrient of stage 1.
LimitNotesIn(result) ==
  SelectSeq(result.formulaPlan.notes.list,
            LAMBDA note : note.kind \in {"limit-special-completes", "limit-no-special"})

\* C29: when stage 1 finds a finite limiting amount, two calls that differ only
\* in the target mode (MIN, MID, MAX) return the same standard amount and name
\* the same limiting nutrient.
C29_ModeKeepsCeiling ==
  (pc = "done" /\ memo.kept /\ SameButMode /\ Len(sizing.limitingNutrientForStandard) > 0) =>
    /\ out.formulaPlan.items.list[1].amount = memo.out.formulaPlan.items.list[1].amount
    /\ LimitNotesIn(out) = LimitNotesIn(memo.out)
    /\ Len(LimitNotesIn(out)) = 1
    /\ LimitNotesIn(out)[1].what = sizing.limitingNutrientForStandard

\* A call in mode MAX after the same call in mode MIN: the ceiling-sized
\* standard amount is the same and the special amount is not.
C29_Witness ==
  /\ pc = "done"
  /\ memo.kept
  /\ SameButMode
  /\ memo.given.targetMode = "MIN" /\ given.targetMode = "MAX"
  /\ Len(sizing.limitingNutrientForStandard) > 0
  /\ RGt(out.formulaPlan.items.list[1].amount, Zero)
  /\ out.formulaPlan.items.list[1].amount = memo.out.formulaPlan.items.list[1].amount
  /\ Len(out.formulaPlan.items.list) >= 2
  /\ out.formulaPlan.items.list[2].amount # memo.out.formulaPlan.items.list[2].amount

\* A range with min <= max and, when mid is given, min <= mid <= max.
Ordered(range) ==
  /\ RLe(range.min, range.max)
  /\ IsNum(range.mid) => (RLe(range.min, range.mid) /\ RLe(range.mid, range.max))
\* What the claim asks of a resolved row.
InBand(row) ==
  /\ (~row.source.minOnly /\ Ordered(row.source)) =>
       (RLe(row.totalMin, row.totalTarget) /\ RLe(row.totalTarget, row.totalMax))
  /\ row.source.minOnly => row.totalTarget = row.totalMin
\* Guideline entries beyond the tables: per-kg and per-day, with and without
\* mid, minOnly or not, ordered or not.
BandEntries ==
  { Entry(<<"PHE">>, [range EXCEPT !.unit = unit]) :
      range \in TargetRanges, unit \in {"mg/kg", "mg/day"} }

\* C30: every resolved row of a range that is not minOnly and is ordered has
\* totalMin <= totalTarget <= totalMax, and every row of a minOnly range has
\* totalTarget = totalMin, for every clamped weight and target mode; the same
\* holds for any other entry the call could have found in its guideline.
C30_TargetInBand ==
  Resolved =>
    /\ \A k \in 1..Len(rows) : rows[k].source = SourceOf(k) /\ InBand(rows[k])
    /\ pc = "stage1" =>
         \A entry \in BandEntries : InBand(ResolveRow(entry, given.targetMode, safe.weight))

\* A call in mode MID for a child over 1 kg whose rows hold a per-kg range
\* with the target strictly inside the band, a range with an explicit mid, and
\* a minOnly per-kg range.
C30_Witness ==
  /\ pc = "stage1"
  /\ given.targetMode = "MID"
  /\ RGt(safe.weight, Int2Q(1))
  /\ \E i, j, k \in 1..Len(rows) :
       /\ rows[i].source.unit \in PerKgUnits /\ ~rows[i].source.minOnly
       /\ RLt(rows[i].totalMin, rows[i].totalTarget) /\ RLt(rows[i].totalTarget, rows[i].totalMax)
       /\ rows[i].totalTarget # pickTarget(rows[i].source, "MID")
       /\ IsNum(rows[j].source.mid) /\ rows[j].totalTarget = rows[j].source.mid
       /\ rows[k].source.minOnly /\ rows[k].source.unit \in PerKgUnits
       /\ rows[k].totalTarget = rows[k].totalMin
       /\ rows[k].totalTarget = RMul(rows[k].source.min, safe.weight)
====
